---- MODULE Spec2Model ----
(***************************************************************************)
(* Model of src/random.rs: the xorshift* generator (XorShiftRng), the      *)
(* thread-local instance THREAD_RNG seeded from the clock, rand(),         *)
(* random_in_range() with its rejection sampling, and Shuffle::shuffle.    *)
(*                                                                         *)
(* An unsigned machine word is a sequence of bits, least significant bit   *)
(* first; the width of a word is the length of the sequence.  Every word   *)
(* operation below is the machine operation at the width of its operands.  *)
(* The program's words are u64 (U64Bits).  The arithmetic of               *)
(* random_in_range is explored at width U64Bits on chosen operands and,    *)
(* exhaustively, at the reduced width SmallBits.                           *)
(***************************************************************************)
EXTENDS Integers, Sequences, FiniteSets, TLC

\* ------------------------------------------------------------------------
\* Bounds of the model
\* ------------------------------------------------------------------------
SmallBits == 2
NumThreads == 2
MaxCalls == 2

\* ------------------------------------------------------------------------
\* Machine words
\* ------------------------------------------------------------------------
U64Bits == 64

\* the word with the bits f[1], ..., f[w], as a sequence
Bits(f, w) == SubSeq(f, 1, w)

\* F(e) and F(e1, e2), with the arguments evaluated once, before F is: TLC
\* evaluates an operator's argument wherever the operator's body uses it
Bind(e, F(_)) == CHOOSE r \in { F(v) : v \in { e } } : TRUE
Bind2(e1, e2, F(_, _)) ==
    CHOOSE r \in { F(p[1], p[2]) : p \in { << e1, e2 >> } } : TRUE

\* 2^n for n in 0..30, from a table
RECURSIVE Power2(_)
Power2(n) == IF n = 0 THEN 1 ELSE 2 * Power2(n - 1)
PowersOf2 == Bits([k \in 1..31 |-> Power2(k - 1)], 31)
Pow2(n) == PowersOf2[n + 1]

\* the word of width w holding n (n taken modulo 2^w): `n as uN`
NatBits(n, w) ==
    Bind(n, LAMBDA m :
        Bits([i \in 1..w |-> IF i <= 31 THEN (m \div Pow2(i - 1)) % 2 ELSE 0], w))

\* the number held by the bits lo..hi of a (bits past the width are 0)
RECURSIVE BitsRange(_, _, _)
BitsRange(a, lo, hi) ==
    IF lo = hi THEN (IF lo <= Len(a) THEN a[lo] ELSE 0)
    ELSE LET mid == (lo + hi) \div 2
         IN  BitsRange(a, lo, mid) + Pow2(mid - lo + 1) * BitsRange(a, mid + 1, hi)

\* the number a word holds; only for words known to be small
BitsNat(a) ==
    Bind(a, LAMBDA x :
        IF \A i \in 1..Len(x) : x[i] = 0 THEN 0 ELSE BitsRange(x, 1, 30))

WordZero(w) == Bits([i \in 1..w |-> 0], w)
\* uN::MAX
WordMax(w) == Bits([i \in 1..w |-> 1], w)
WordOne(w) == Bits([i \in 1..w |-> IF i = 1 THEN 1 ELSE 0], w)

\* a ^ b
Xor(a, b) ==
    Bind2(a, b, LAMBDA x, y :
        Bits([i \in 1..Len(x) |-> (x[i] + y[i]) % 2], Len(x)))
\* a >> k
Shr(a, k) ==
    Bind(a, LAMBDA x :
        Bits([i \in 1..Len(x) |-> IF i + k <= Len(x) THEN x[i + k] ELSE 0], Len(x)))
\* a << k
Shl(a, k) ==
    Bind(a, LAMBDA x :
        Bits([i \in 1..Len(x) |-> IF i - k >= 1 THEN x[i - k] ELSE 0], Len(x)))

\* a < b on the bits lo..hi: decided by the upper half unless it is equal
RECURSIVE LtRange(_, _, _, _)
LtRange(a, b, lo, hi) ==
    IF lo = hi THEN a[lo] < b[lo]
    ELSE LET mid == (lo + hi) \div 2
         IN  IF SubSeq(a, mid + 1, hi) = SubSeq(b, mid + 1, hi)
             THEN LtRange(a, b, lo, mid)
             ELSE LtRange(a, b, mid + 1, hi)

\* a < b
Lt(a, b) == Bind2(a, b, LAMBDA x, y : LtRange(x, y, 1, Len(x)))
Le(a, b) == ~Lt(b, a)

\* binary addition of the bits lo..hi of a and b with carry-in cin: the sum
\* bits lo..hi, followed by the carry out of bit hi
RECURSIVE AddRange(_, _, _, _, _)
AddRange(a, b, lo, hi, cin) ==
    IF lo = hi
    THEN << (a[lo] + b[lo] + cin) % 2, (a[lo] + b[lo] + cin) \div 2 >>
    ELSE LET mid == (lo + hi) \div 2
         IN  Bind(AddRange(a, b, lo, mid, cin), LAMBDA low :
                 SubSeq(low, 1, mid - lo + 1)
                 \o AddRange(a, b, mid + 1, hi, low[mid - lo + 2]))

\* a.wrapping_add(b)
WrappingAdd(a, b) ==
    Bind2(a, b, LAMBDA x, y : SubSeq(AddRange(x, y, 1, Len(x), 0), 1, Len(x)))
\* a + b does not fit the width (an arithmetic overflow of `a + b`)
AddOverflows(a, b) ==
    Bind2(a, b, LAMBDA x, y : AddRange(x, y, 1, Len(x), 0)[Len(x) + 1] = 1)

Not(a) == Bind(a, LAMBDA x : Bits([i \in 1..Len(x) |-> 1 - x[i]], Len(x)))
\* a.wrapping_sub(b) = a + !b + 1
WrappingSub(a, b) ==
    Bind2(a, Not(b), LAMBDA x, y : SubSeq(AddRange(x, y, 1, Len(x), 1), 1, Len(x)))

\* Multiplication and division work on limbs: a word cut into pieces of lb
\* bits, each piece held as a number, least significant piece first.

\* the n limbs of lb bits of the word a
ToLimbs(a, lb, n) ==
    Bind(a, LAMBDA x :
        Bits([k \in 1..n |-> BitsRange(x, lb * (k - 1) + 1, lb * k)], n))

\* the word of width w held by limbs of lb bits
FromLimbs(limbs, lb, w) ==
    Bind(limbs, LAMBDA l :
        Bits([i \in 1..w |->
                (l[((i - 1) \div lb) + 1] \div Pow2((i - 1) % lb)) % 2], w))

MulLimbBits == 12
DivLimbBits == 24
LimbCount(w, lb) == (w + lb - 1) \div lb

\* column c of the schoolbook product: the sum of x[i] * y[c + 1 - i]
RECURSIVE Column(_, _, _, _)
Column(x, y, c, i) ==
    IF i > Len(x) \/ i > c THEN 0
    ELSE (IF c + 1 - i <= Len(y) THEN x[i] * y[c + 1 - i] ELSE 0)
         + Column(x, y, c, i + 1)

\* the carries propagated through the columns lo..hi, cin being carried into
\* column lo: the limbs lo..hi, followed by the carry out of column hi
RECURSIVE CarryRange(_, _, _, _)
CarryRange(cols, lo, hi, cin) ==
    IF lo = hi
    THEN << (cols[lo] + cin) % Pow2(MulLimbBits),
            (cols[lo] + cin) \div Pow2(MulLimbBits) >>
    ELSE LET mid == (lo + hi) \div 2
         IN  Bind(CarryRange(cols, lo, mid, cin), LAMBDA low :
                 SubSeq(low, 1, mid - lo + 1)
                 \o CarryRange(cols, mid + 1, hi, low[mid - lo + 2]))

\* the product of a and b in full, as a word of twice the width
FullMul(a, b) ==
    Bind2(a, b, LAMBDA u, v :
        LET w == Len(u)
            n == LimbCount(w, MulLimbBits)
        IN  Bind2(ToLimbs(u, MulLimbBits, n), ToLimbs(v, MulLimbBits, n),
                  LAMBDA x, y :
                      Bind(Bits([c \in 1..(2 * n) |-> Column(x, y, c, 1)], 2 * n),
                           LAMBDA cols :
                               FromLimbs(CarryRange(cols, 1, 2 * n, 0),
                                         MulLimbBits, 2 * w))))

\* a.wrapping_mul(b)
WrappingMul(a, b) == SubSeq(FullMul(a, b), 1, Len(a))

\* a * b does not fit the width (an arithmetic overflow of `a * b`)
MulOverflows(a, b) ==
    Bind(FullMul(a, b), LAMBDA p :
        \E i \in (Len(a) + 1)..(2 * Len(a)) : p[i] = 1)

\* x < y for numbers given by the same number of limbs
RECURSIVE LimbsLt(_, _, _)
LimbsLt(x, y, k) ==
    IF k = 0 THEN FALSE
    ELSE IF x[k] # y[k] THEN x[k] < y[k]
    ELSE LimbsLt(x, y, k - 1)

\* the limbs of 2 * x + bit: each limb takes in the top bit of the one below
LimbsDouble(x, bit) ==
    Bind(x, LAMBDA v :
        Bits([k \in 1..Len(v) |->
                (2 * v[k] + (IF k = 1 THEN bit
                             ELSE v[k - 1] \div Pow2(DivLimbBits - 1)))
                    % Pow2(DivLimbBits)], Len(v)))

\* the limbs of x - y (x >= y): limb k borrows when x is below y on the
\* limbs under k
LimbsSub(x, y) ==
    Bits([k \in 1..Len(x) |->
            (x[k] - y[k] - (IF LimbsLt(x, y, k - 1) THEN 1 ELSE 0)
                + Pow2(DivLimbBits)) % Pow2(DivLimbBits)], Len(x))

\* long division of a by d # 0 over the bits hi down to lo of a, entered
\* with the running remainder r (limbs): at each bit r becomes 2r + bit, and
\* r - y with a quotient bit 1 when that is possible (y: the limbs of d).
\* The quotient bits hi down to lo, followed by the limbs of the remainder.
RECURSIVE DivRange(_, _, _, _, _)
DivRange(a, y, hi, lo, r) ==
    IF lo = hi
    THEN Bind(LimbsDouble(r, a[lo]), LAMBDA r2 :
             IF LimbsLt(r2, y, Len(y))
             THEN << 0 >> \o r2
             ELSE << 1 >> \o LimbsSub(r2, y))
    ELSE LET mid == (lo + hi) \div 2
         IN  Bind(DivRange(a, y, hi, mid + 1, r), LAMBDA upper :
                 SubSeq(upper, 1, hi - mid)
                 \o DivRange(a, y, mid, lo, SubSeq(upper, hi - mid + 1, Len(upper))))

DivMod(a, d) ==
    Bind2(a, d, LAMBDA u, v :
        LET w == Len(u)
            n == LimbCount(w + 1, DivLimbBits)
        IN  Bind2(ToLimbs(v, DivLimbBits, n), ToLimbs(WordZero(w), DivLimbBits, n),
                  LAMBDA y, zero :
                      Bind(DivRange(u, y, w, 1, zero), LAMBDA qr :
                          [quot |-> Bits([i \in 1..w |-> qr[w + 1 - i]], w),
                           rem  |-> FromLimbs(SubSeq(qr, w + 1, w + n),
                                              DivLimbBits, w)])))
\* a / d
Div(a, d) == DivMod(a, d).quot
\* a % d
Rem(a, d) == DivMod(a, d).rem

\* ------------------------------------------------------------------------
\* XorShiftRng (src/random.rs)
\* ------------------------------------------------------------------------

\* a word written as hexadecimal digits, most significant digit first
RECURSIVE HexWord(_)
HexWord(digits) ==
    IF digits = << >> THEN << >>
    ELSE HexWord(Tail(digits)) \o NatBits(Head(digits), 4)

\* (an even multiplier, 2^63: the product keeps one bit of the state)
MultiplierTop == Shl(WordOne(U64Bits), U64Bits - 1)

\* 0x2545F4914F6CDD1D
Multiplier == HexWord(<< 2, 5, 4, 5, 15, 4, 9, 1, 4, 15, 6, 12, 13, 13, 1, 13 >>)

\* XorShiftRng::new(seed)
New(seed) == seed

\* (the value taken from the state before the three steps)
GenerateOldState(state) ==
    LET x0 == state
        x1 == Xor(x0, Shr(x0, 12))
        x2 == Xor(x1, Shl(x1, 25))
        x3 == Xor(x2, Shr(x2, 27))
    IN  [state |-> x3, value |-> WrappingMul(x0, Multiplier)]

\* (self.state = x left out: the state is read and never written)
GenerateFrozen(state) ==
    LET x0 == state
        x1 == Xor(x0, Shr(x0, 12))
        x2 == Xor(x1, Shl(x1, 25))
        x3 == Xor(x2, Shr(x2, 27))
    IN  [state |-> x0, value |-> WrappingMul(x3, Multiplier)]

\* (step a written x = x >> 12: the low bits are shifted out, not mixed in)
GenerateShiftOut(state) ==
    LET x0 == state
        x1 == Shr(x0, 12)
        x2 == Xor(x1, Shl(x1, 25))
        x3 == Xor(x2, Shr(x2, 27))
    IN  [state |-> x3, value |-> WrappingMul(x3, Multiplier)]

\* XorShiftRng::generate: the new state and the returned value
Generate(state) ==
    LET x0 == state
        x1 == Xor(x0, Shr(x0, 12))
        x2 == Xor(x1, Shl(x1, 25))
        x3 == Xor(x2, Shr(x2, 27))
    IN  [state |-> x3, value |-> WrappingMul(x3, Multiplier)]

\* (the clock reading returned as it is)
GetSeedRaw(nanos) == nanos

\* get_seed, given the clock reading `nanos` (already cast to u64)
GetSeed(nanos) ==
    IF nanos = WordZero(U64Bits) THEN WordOne(U64Bits) ELSE nanos

\* ------------------------------------------------------------------------
\* random_in_range (src/random.rs)
\* ------------------------------------------------------------------------
\* (the loop written `0..=MAX_RETRIES`)
MAX_RETRIES_Inclusive == 100 + 1

MAX_RETRIES == 100

\* MyResult<u64>
Ok(v) == [kind |-> "Ok", value |-> v]
Err(msg) == [kind |-> "Err", msg |-> msg]
\* an arithmetic overflow of `+` or `*`: the operation has no u64 result
Overflow == [kind |-> "Overflow"]

\* 10^k as a word of width w
RECURSIVE TenPow(_, _)
TenPow(k, w) ==
    IF k = 0 THEN WordOne(w)
    ELSE IF k = 1 THEN NatBits(10, w)
    ELSE WrappingMul(TenPow(k \div 2, w), TenPow(k - (k \div 2), w))

\* the decimal digits of x written with n digits (x < 10^n), most
\* significant first
RECURSIVE DigitsOf(_, _)
DigitsOf(x, n) ==
    IF n = 1 THEN << BitsNat(x) >>
    ELSE IF x = WordZero(Len(x)) THEN Bits([i \in 1..n |-> 0], n)
    ELSE Bind(DivMod(x, TenPow(n \div 2, Len(x))), LAMBDA qr :
             DigitsOf(qr.quot, n - (n \div 2)) \o DigitsOf(qr.rem, n \div 2))

\* a number of decimal digits that holds every word of width w
MaxDigits(w) == (3 * w) \div 10 + 1

DigitChars == << "0", "1", "2", "3", "4", "5", "6", "7", "8", "9" >>

\* `{}` of a u64: its decimal digits without leading zeros, most significant
\* first, each a character
Decimal(a) ==
    Bind(DigitsOf(a, MaxDigits(Len(a))), LAMBDA d :
        LET n     == Len(d)
            first == IF \A i \in 1..n : d[i] = 0 THEN n
                     ELSE CHOOSE i \in 1..n :
                              d[i] # 0 /\ \A j \in 1..(i - 1) : d[j] = 0
        IN  Bits([i \in 1..(n - first + 1) |-> DigitChars[d[first - 1 + i] + 1]],
                 n - first + 1))

\* format!("min ({min}) must be less than or equal to max ({max})")
InvalidRangeMsg(min, max) ==
    << "min (" >> \o Decimal(min)
        \o << ") must be less than or equal to max (" >> \o Decimal(max) \o << ")" >>

\* (the check written `min >= max`)
InvalidRangeGe(min, max) == ~Lt(min, max)

\* min > max
InvalidRange(min, max) == Lt(max, min)

\* (the range taken as half-open: max - min)
RangeSizeExclusive(min, max) == WrappingSub(max, min)

\* (saturating instead of wrapping: max.wrapping_sub(min).saturating_add(1))
RangeSizeSaturating(min, max) ==
    Bind(WrappingSub(max, min), LAMBDA d :
        IF d = WordMax(Len(min)) THEN d ELSE WrappingAdd(d, WordOne(Len(min))))

\* max.wrapping_sub(min).wrapping_add(1)
RangeSize(min, max) == WrappingAdd(WrappingSub(max, min), WordOne(Len(min)))

\* (no rejection zone: every draw is accepted)
RejectionThresholdNone(range_size) == WordMax(Len(range_size))

\* (u64::MAX - range_size)
RejectionThresholdSub(range_size) ==
    WrappingSub(WordMax(Len(range_size)), range_size)

\* (u64::MAX / range_size) * range_size
RejectionThreshold(range_size) ==
    WrappingMul(Div(WordMax(Len(range_size)), range_size), range_size)

\* Ok(min + (value % range_size))
MapIntoRange(min, value, range_size) ==
    Bind(Rem(value, range_size), LAMBDA offset :
        IF AddOverflows(min, offset) THEN Overflow
        ELSE Ok(WrappingAdd(min, offset)))

\* ------------------------------------------------------------------------
\* State
\* ------------------------------------------------------------------------
Threads == 1..NumThreads

\* no generator yet, no word yet: distinct from every word of a width >= 1
NotCreated == << >>
None == << >>
\* no result yet
NoResult == [kind |-> "None"]

VARIABLES
    rng,      \* THREAD_RNG of each thread: NotCreated, or the generator state
    nanos,    \* the clock reading each thread's generator was seeded from
    out,      \* the values generate() has returned on each thread, in order
    hist,     \* the calls each thread has made, with what they returned
    vec,      \* the slice each thread is shuffling
    idx,      \* the loop index i of each thread's running shuffle, 0 if none
    frame     \* the locals of one call followed step by step (random_in_range
              \* draw by draw, an iterator item by item), pc "none" if none

threadVars == << rng, nanos, out, hist, vec, idx >>
vars == << rng, nanos, out, hist, vec, idx, frame >>

U64(n) == NatBits(n, U64Bits)
U64Max == WordMax(U64Bits)
\* 2^63
U64Top == Bits([i \in 1..U64Bits |-> IF i = U64Bits THEN 1 ELSE 0], U64Bits)

\* ------------------------------------------------------------------------
\* random_in_range as one call on a generator in state `state`: the result,
\* the state the generator is left in, and the number of rand() calls made
\* ------------------------------------------------------------------------
RECURSIVE RejectionLoop(_, _, _, _, _, _)
RejectionLoop(min, range_size, rejection_threshold, attempt, state, values) ==
    LET g == Generate(state)
    IN  IF attempt < MAX_RETRIES /\ ~Lt(g.value, rejection_threshold)
        THEN RejectionLoop(min, range_size, rejection_threshold, attempt + 1,
                           g.state, Append(values, g.value))
        ELSE \* an accepted value, or the fallback once the loop is exhausted
             [result |-> MapIntoRange(min, g.value, range_size),
              state |-> g.state, values |-> Append(values, g.value)]

RandomInRange(min, max, state) ==
    IF InvalidRange(min, max)
    THEN [result |-> Err(InvalidRangeMsg(min, max)), state |-> state,
          values |-> << >>]
    ELSE LET range_size == RangeSize(min, max)
         IN  IF range_size = WordZero(Len(min))
             THEN LET g == Generate(state)
                  IN  [result |-> Ok(g.value), state |-> g.state,
                       values |-> << g.value >>]
             ELSE RejectionLoop(min, range_size, RejectionThreshold(range_size),
                                0, state, << >>)

\* ------------------------------------------------------------------------
\* random_in_range, one step per call of rand(), the values rand() returns
\* being inputs
\* ------------------------------------------------------------------------
Words(w) == { NatBits(n, w) : n \in 0..(Pow2(w) - 1) }

\* u64 arguments: the ranges of the tests, an invalid one, the full range,
\* one element, the widest range that is not full, and a range of more than
\* half of the domain (where one draw in two is rejected)
WideArgs ==
    { << U64(100), U64(200) >>, << U64(1), U64(20) >>, << U64(21), U64(20) >>,
      << U64(0), U64Max >>, << U64Max, U64Max >>, << U64(1), U64Max >>,
      << U64(0), U64Top >>, << U64Max, U64(0) >> }

SamplerArgs == (Words(SmallBits) \X Words(SmallBits)) \cup WideArgs

\* the values rand() may return to the call: every word at the reduced
\* width; at u64 the ends of the domain and the two sides of the threshold
\* (of 2^63 when the call has no threshold)
DrawValues ==
    IF Len(frame.min) = U64Bits
    THEN Bind(IF frame.rejection_threshold = None THEN U64Top
              ELSE frame.rejection_threshold, LAMBDA threshold :
             { WordZero(U64Bits), WrappingSub(threshold, WordOne(U64Bits)),
               threshold, U64Max })
    ELSE Words(Len(frame.min))

\* no thread has touched its generator
ThreadsIdle ==
    /\ rng = [t \in Threads |-> NotCreated]
    /\ nanos = [t \in Threads |-> None]
    /\ out = [t \in Threads |-> << >>]
    /\ hist = [t \in Threads |-> << >>]
    /\ vec = [t \in Threads |-> << >>]
    /\ idx = [t \in Threads |-> 0]

\* the locals of the call: range_size and rejection_threshold are set when
\* the lines that compute them have run
SamplerInit ==
    /\ ThreadsIdle
    /\ frame \in { [pc |-> "entry", min |-> a[1], max |-> a[2],
                     range_size |-> None, rejection_threshold |-> None,
                     attempt |-> 0, draws |-> 0, value |-> None,
                     result |-> NoResult] : a \in SamplerArgs }

\* lines 72-90: the range check, range_size, the full-width test and the
\* threshold
SamplerEnter ==
    /\ frame.pc = "entry"
    /\ IF InvalidRange(frame.min, frame.max)
       THEN frame' = [frame EXCEPT !.pc = "returned",
                        !.result = Err(InvalidRangeMsg(frame.min, frame.max))]
       ELSE LET range_size == RangeSize(frame.min, frame.max)
            IN  IF range_size = WordZero(Len(frame.min))
                THEN frame' = [frame EXCEPT !.pc = "full",
                                 !.range_size = range_size]
                ELSE frame' = [frame EXCEPT !.pc = "loop",
                                 !.range_size = range_size,
                                 !.rejection_threshold = RejectionThreshold(range_size)]
    /\ UNCHANGED threadVars

\* line 84: return Ok(rand())
SamplerFullDraw ==
    /\ frame.pc = "full"
    /\ \E value \in DrawValues :
         frame' = [frame EXCEPT !.pc = "returned", !.draws = @ + 1,
                                !.value = value, !.result = Ok(value)]
    /\ UNCHANGED threadVars

\* lines 96-103: one pass of the loop, on a value that is not below the
\* threshold
SamplerReject ==
    /\ frame.pc = "loop"
    /\ frame.attempt < MAX_RETRIES
    /\ \E value \in DrawValues :
         /\ ~Lt(value, frame.rejection_threshold)
         /\ frame' = [frame EXCEPT !.draws = @ + 1, !.attempt = @ + 1,
                                   !.value = value]
    /\ UNCHANGED threadVars

\* lines 96-103: one pass of the loop, on a value below the threshold
SamplerAccept ==
    /\ frame.pc = "loop"
    /\ frame.attempt < MAX_RETRIES
    /\ \E value \in DrawValues :
         /\ Lt(value, frame.rejection_threshold)
         /\ frame' = [frame EXCEPT !.pc = "returned", !.draws = @ + 1,
                         !.attempt = @ + 1, !.value = value,
                         !.result = MapIntoRange(frame.min, value, frame.range_size)]
    /\ UNCHANGED threadVars

\* line 107: the loop is exhausted
SamplerFallback ==
    /\ frame.pc = "loop"
    /\ frame.attempt >= MAX_RETRIES
    /\ \E value \in DrawValues :
         frame' = [frame EXCEPT !.pc = "returned", !.draws = @ + 1,
                     !.value = value,
                     !.result = MapIntoRange(frame.min, value, frame.range_size)]
    /\ UNCHANGED threadVars

SamplerNext ==
    \/ SamplerEnter
    \/ SamplerFullDraw
    \/ SamplerReject
    \/ SamplerAccept
    \/ SamplerFallback

SpecSampler == SamplerInit /\ [][SamplerNext]_vars

\* a call that has started runs on: its code is sequential and does not block
SpecSamplerFair == SpecSampler /\ WF_vars(SamplerNext)

\* ------------------------------------------------------------------------
\* Threads calling rand, random_in_range and shuffle
\* ------------------------------------------------------------------------
MaxLen == 3

\* what SystemTime::now() ... as_nanos() as u64 may read
ClockReadings == { U64(0), U64(12345) }

\* the arguments threads pass to random_in_range
ThreadArgs ==
    { << U64(1), U64(20) >>, << U64(21), U64(20) >>, << U64(0), U64Max >>,
      << U64(0), U64Top >> }

\* the vectors threads shuffle
ShuffleInputs == { [i \in 1..n |-> i] : n \in 0..MaxLen }

\* thread_local!: the instance an access made on thread t resolves to
\* (one static for all threads instead of a thread_local)
LocalKeyShared(t) == CHOOSE u \in Threads : \A v \in Threads : u <= v

\* thread_local!: the key THREAD_RNG has on thread t
LocalKey(t) == t

\* (the seed mixed with the thread's id)
InstanceSalted(t, n) ==
    IF rng[LocalKey(t)] = NotCreated THEN New(Xor(GetSeed(n), U64(t)))
    ELSE rng[LocalKey(t)]

\* (a new generator for every access, seeded as the first one was)
InstanceFresh(t, n) ==
    IF rng[LocalKey(t)] = NotCreated THEN New(GetSeed(n))
    ELSE New(GetSeed(nanos[LocalKey(t)]))

\* THREAD_RNG.with(..): the state of the thread's generator, which is created
\* by XorShiftRng::new(get_seed()) at the first access, the clock reading n
Instance(t, n) ==
    IF rng[LocalKey(t)] = NotCreated THEN New(GetSeed(n)) ELSE rng[LocalKey(t)]

\* an access on thread t has made generate() return `values` and has left
\* the generator in state `state`
Accessed(t, n, state, values) ==
    /\ rng' = [rng EXCEPT ![LocalKey(t)] = state]
    /\ nanos' = IF rng[LocalKey(t)] = NotCreated
                THEN [nanos EXCEPT ![LocalKey(t)] = n] ELSE nanos
    /\ out' = [out EXCEPT ![t] = @ \o values]

\* the clock is read only when an access creates the generator
Readings(t) ==
    IF rng[LocalKey(t)] = NotCreated THEN ClockReadings ELSE { None }

Calls(t) == { k \in 1..Len(hist[t]) : hist[t][k].op # "swap" }
Panicked(t) == \E k \in 1..Len(hist[t]) : hist[t][k].op = "panic"

RECURSIVE CallsMade(_)
CallsMade(ts) ==
    IF ts = {} THEN 0
    ELSE LET t == CHOOSE u \in ts : TRUE
         IN  Cardinality(Calls(t)) + CallsMade(ts \ {t})

\* thread t is between two calls and the run may make another call
Ready(t) ==
    /\ idx[t] = 0
    /\ ~Panicked(t)
    /\ CallsMade(Threads) < MaxCalls

\* rand()
Rand(t) ==
    /\ Ready(t)
    /\ \E n \in Readings(t) :
         LET g == Generate(Instance(t, n))
         IN  /\ Accessed(t, n, g.state, << g.value >>)
             /\ hist' = [hist EXCEPT ![t] =
                           Append(@, [op |-> "rand", value |-> g.value])]
    /\ UNCHANGED << vec, idx, frame >>

\* random_in_range(min, max)
RandomInRangeCall(t) ==
    /\ Ready(t)
    /\ \E a \in ThreadArgs, n \in Readings(t) :
         LET r == RandomInRange(a[1], a[2], Instance(t, n))
         IN  /\ IF r.values = << >> THEN UNCHANGED << rng, nanos, out >>
                ELSE Accessed(t, n, r.state, r.values)
             /\ hist' = [hist EXCEPT ![t] =
                           Append(@, [op |-> "random_in_range", min |-> a[1],
                                      max |-> a[2], result |-> r.result])]
    /\ UNCHANGED << vec, idx, frame >>

\* (the loop taken as `for i in (1..=len).rev()`, which runs for len = 1)
ShuffleBeginInclusive(t) ==
    /\ Ready(t)
    /\ \E v \in ShuffleInputs :
         /\ vec' = [vec EXCEPT ![t] = v]
         /\ idx' = [idx EXCEPT ![t] = Len(v)]
         /\ hist' = [hist EXCEPT ![t] = Append(@, [op |-> "shuffle", input |-> v])]
    /\ UNCHANGED << rng, nanos, out, frame >>

\* v.shuffle(): let len = self.len(); the loop starts at i = len - 1 and does
\* not run when len < 2
ShuffleBegin(t) ==
    /\ Ready(t)
    /\ \E v \in ShuffleInputs :
         /\ vec' = [vec EXCEPT ![t] = v]
         /\ idx' = [idx EXCEPT ![t] = IF Len(v) >= 2 THEN Len(v) - 1 ELSE 0]
         /\ hist' = [hist EXCEPT ![t] = Append(@, [op |-> "shuffle", input |-> v])]
    /\ UNCHANGED << rng, nanos, out, frame >>

\* (self[i] = self[j]: the element at i overwritten, not exchanged)
SwapOverwrite(v, i, j) == [v EXCEPT ![i + 1] = v[j + 1]]

\* (self.swap(j, j): the element at i left where it is)
SwapSame(v, i, j) == [v EXCEPT ![j + 1] = v[j + 1]]

\* self.swap(i, j), indices counted from 0
Swap(v, i, j) == [v EXCEPT ![i + 1] = v[j + 1], ![j + 1] = v[i + 1]]

\* one pass of `for i in (1..len).rev()`:
\* j = random_in_range(0, i as u64).unwrap() as usize; self.swap(i, j)
ShuffleStep(t) ==
    /\ idx[t] >= 1
    /\ ~Panicked(t)
    /\ \E n \in Readings(t) :
         LET i == idx[t]
             r == RandomInRange(U64(0), U64(i), Instance(t, n))
         IN  /\ IF r.values = << >> THEN UNCHANGED << rng, nanos, out >>
                ELSE Accessed(t, n, r.state, r.values)
             /\ IF r.result.kind = "Ok" /\ Lt(r.result.value, U64(Len(vec[t])))
                THEN LET j == BitsNat(r.result.value)
                     IN  /\ vec' = [vec EXCEPT ![t] = Swap(@, i, j)]
                         /\ idx' = [idx EXCEPT ![t] = i - 1]
                         /\ hist' = [hist EXCEPT ![t] =
                                       Append(@, [op |-> "swap", i |-> i, j |-> j])]
                ELSE \* unwrap() of an Err, or swap() out of bounds
                     /\ hist' = [hist EXCEPT ![t] = Append(@, [op |-> "panic"])]
                     /\ UNCHANGED << vec, idx >>
    /\ UNCHANGED frame

Init ==
    /\ ThreadsIdle
    /\ frame = [pc |-> "none"]

Next ==
    \E t \in Threads :
        \/ Rand(t)
        \/ RandomInRangeCall(t)
        \/ ShuffleBegin(t)
        \/ ShuffleStep(t)

Spec == Init /\ [][Next]_vars

\* ------------------------------------------------------------------------
\* shuffle on one thread, one step per pass of its loop, the values rand()
\* returns being inputs
\* ------------------------------------------------------------------------
ShuffleLen == 4

\* the slices shuffled: distinct elements, repeated elements, one element
\* throughout, of every length up to ShuffleLen
ShuffleVectors ==
    UNION { { [k \in 1..n |-> k], [k \in 1..n |-> (k + 1) \div 2],
              [k \in 1..n |-> 7] } : n \in 0..ShuffleLen }

\* the values the last rand() of a call may return
ShuffleDraws == { U64(k) : k \in 0..ShuffleLen } \cup { U64Max }

\* random_in_range(min, max) when the last value it draws is `value`: an
\* accepted draw of the loop (line 100), the fallback draw (line 107), or
\* the one draw of the full-width case (line 84)
LastDraw(min, max, value) ==
    IF InvalidRange(min, max) THEN Err(InvalidRangeMsg(min, max))
    ELSE Bind(RangeSize(min, max), LAMBDA range_size :
             IF range_size = WordZero(Len(min)) THEN Ok(value)
             ELSE MapIntoRange(min, value, range_size))

\* the thread that calls shuffle
Caller == CHOOSE t \in Threads : \A u \in Threads : t <= u

\* (the loop taken as `for i in (1..=len).rev()`, which starts at i = len)
ShufflerBeginInclusive ==
    /\ hist[Caller] = << >>
    /\ \E v \in ShuffleVectors :
         /\ vec' = [vec EXCEPT ![Caller] = v]
         /\ idx' = [idx EXCEPT ![Caller] = Len(v)]
         /\ hist' = [hist EXCEPT ![Caller] =
                       Append(@, [op |-> "shuffle", input |-> v])]
    /\ UNCHANGED << rng, nanos, out, frame >>

\* v.shuffle(): let len = self.len(); the loop starts at i = len - 1 and does
\* not run when len < 2
ShufflerBegin ==
    /\ hist[Caller] = << >>
    /\ \E v \in ShuffleVectors :
         /\ vec' = [vec EXCEPT ![Caller] = v]
         /\ idx' = [idx EXCEPT ![Caller] = IF Len(v) >= 2 THEN Len(v) - 1 ELSE 0]
         /\ hist' = [hist EXCEPT ![Caller] =
                       Append(@, [op |-> "shuffle", input |-> v])]
    /\ UNCHANGED << rng, nanos, out, frame >>

\* (the index drawn from the whole slice: random_in_range(0, len - 1))
ShufflerStepWholeSlice ==
    /\ idx[Caller] >= 1
    /\ ~Panicked(Caller)
    /\ \E value \in ShuffleDraws :
         LET i == idx[Caller]
             r == LastDraw(U64(0), U64(Len(vec[Caller]) - 1), value)
         IN  IF r.kind = "Ok" /\ Lt(r.value, U64(Len(vec[Caller])))
             THEN LET j == BitsNat(r.value)
                  IN  /\ vec' = [vec EXCEPT ![Caller] = Swap(@, i, j)]
                      /\ idx' = [idx EXCEPT ![Caller] = i - 1]
                      /\ hist' = [hist EXCEPT ![Caller] =
                                    Append(@, [op |-> "swap", i |-> i, j |-> j])]
             ELSE /\ hist' = [hist EXCEPT ![Caller] = Append(@, [op |-> "panic"])]
                  /\ UNCHANGED << vec, idx >>
    /\ UNCHANGED << rng, nanos, out, frame >>

\* one pass of `for i in (1..len).rev()`:
\* j = random_in_range(0, i as u64).unwrap() as usize; self.swap(i, j)
ShufflerStep ==
    /\ idx[Caller] >= 1
    /\ ~Panicked(Caller)
    /\ \E value \in ShuffleDraws :
         LET i == idx[Caller]
             r == LastDraw(U64(0), U64(i), value)
         IN  IF r.kind = "Ok" /\ Lt(r.value, U64(Len(vec[Caller])))
             THEN LET j == BitsNat(r.value)
                  IN  /\ vec' = [vec EXCEPT ![Caller] = Swap(@, i, j)]
                      /\ idx' = [idx EXCEPT ![Caller] = i - 1]
                      /\ hist' = [hist EXCEPT ![Caller] =
                                    Append(@, [op |-> "swap", i |-> i, j |-> j])]
             ELSE \* unwrap() of an Err, or swap() out of bounds
                  /\ hist' = [hist EXCEPT ![Caller] = Append(@, [op |-> "panic"])]
                  /\ UNCHANGED << vec, idx >>
    /\ UNCHANGED << rng, nanos, out, frame >>

ShufflerNext ==
    \/ ShufflerBegin
    \/ ShufflerStep

SpecShuffle == Init /\ [][ShufflerNext]_vars

\* the loop is sequential code of a running thread: a pass that can run, runs
SpecShuffleFair == SpecShuffle /\ WF_vars(ShufflerNext)

\* ------------------------------------------------------------------------
\* split_slice_into_subsets: the iterator it returns, one step per next()
\* ------------------------------------------------------------------------
SliceLen == 6
PiecesMax == 8

\* the slices split: 1, 2, .., n
SplitSlices == { [k \in 1..n |-> k] : n \in 0..SliceLen }

\* usize::div_ceil
DivCeil(a, b) == a \div b + (IF a % b > 0 THEN 1 ELSE 0)

\* DataIter { data_slice, n_pieces }, with the arguments of the call and the
\* items next() has returned so far
SplitInit ==
    /\ ThreadsIdle
    /\ frame \in { [pc |-> "iterating", data |-> v, pieces_wanted |-> n,
                     data_slice |-> v, n_pieces |-> n, items |-> << >>] :
                      v \in SplitSlices, n \in 0..PiecesMax }

\* (the group size rounded down: len / n_pieces)
SplitSomeFloor ==
    /\ frame.pc = "iterating"
    /\ ~(frame.n_pieces = 0 \/ frame.data_slice = << >>)
    /\ LET group_number == Len(frame.data_slice) \div frame.n_pieces
           first  == SubSeq(frame.data_slice, 1, group_number)
           second == SubSeq(frame.data_slice, group_number + 1,
                            Len(frame.data_slice))
       IN  frame' = [frame EXCEPT !.data_slice = second, !.n_pieces = @ - 1,
                                  !.items = Append(@, first)]
    /\ UNCHANGED threadVars

\* next() returning Some(first): lines 40-44.  split_at panics when
\* group_number is more than the length
SplitSome ==
    /\ frame.pc = "iterating"
    /\ ~(frame.n_pieces = 0 \/ frame.data_slice = << >>)
    /\ LET group_number == DivCeil(Len(frame.data_slice), frame.n_pieces)
           first  == SubSeq(frame.data_slice, 1, group_number)
           second == SubSeq(frame.data_slice, group_number + 1,
                            Len(frame.data_slice))
       IN  IF group_number > Len(frame.data_slice)
           THEN frame' = [frame EXCEPT !.pc = "panicked"]
           ELSE frame' = [frame EXCEPT !.data_slice = second, !.n_pieces = @ - 1,
                                       !.items = Append(@, first)]
    /\ UNCHANGED threadVars

\* next() returning None: lines 37-39; the iteration is over
SplitNone ==
    /\ frame.pc = "iterating"
    /\ frame.n_pieces = 0 \/ frame.data_slice = << >>
    /\ frame' = [frame EXCEPT !.pc = "finished"]
    /\ UNCHANGED threadVars

SplitNext ==
    \/ SplitSome
    \/ SplitNone

SpecSplit == SplitInit /\ [][SplitNext]_vars

\* ------------------------------------------------------------------------
\* unique() on a Vec, and the iterator get_unique() over the same items, one
\* step per next()
\* ------------------------------------------------------------------------
UniqueLen == 4
UniqueValues == 3

\* the vectors deduplicated: every sequence of up to UniqueLen of the values
UniqueInputs ==
    UNION { [1..n -> 1..UniqueValues] : n \in 0..UniqueLen }

\* (only an element equal to the one before it is dropped, as Vec::dedup)
RECURSIVE RetainAdjacent(_, _)
RetainAdjacent(v, seen) ==
    IF v = << >> THEN << >>
    ELSE IF Head(v) \in seen THEN RetainAdjacent(Tail(v), seen)
    ELSE << Head(v) >> \o RetainAdjacent(Tail(v), { Head(v) })

\* self.retain(|x| seen.insert(x.clone())): the elements of v kept, in
\* order, `seen` being the set so far; insert returns true, and the element
\* is kept, when the set did not hold it
RECURSIVE Retain(_, _)
Retain(v, seen) ==
    IF v = << >> THEN << >>
    ELSE IF Head(v) \in seen THEN Retain(Tail(v), seen)
    ELSE << Head(v) >> \o Retain(Tail(v), seen \cup { Head(v) })

\* the Vec before any call, and UniqueIterator { iter, seen } over its items
UniqueInit ==
    /\ ThreadsIdle
    /\ frame \in { [pc |-> "unique", input |-> v, vector |-> v, calls |-> 0,
                     iter |-> v, seen |-> {}, yielded |-> << >>,
                     exhausted |-> FALSE] : v \in UniqueInputs }

\* vector.unique(): let mut seen = HashSet::new(); self.retain(..)
UniqueCall ==
    /\ frame.pc = "unique"
    /\ frame.calls < 2
    /\ frame' = [frame EXCEPT !.vector = Retain(@, {}), !.calls = @ + 1]
    /\ UNCHANGED threadVars

\* next() returning Some(item): find takes items from iter up to the first
\* one that seen.insert accepts
UniqueSome ==
    /\ frame.pc = "unique"
    /\ \E k \in 1..Len(frame.iter) :
         /\ frame.iter[k] \notin frame.seen
         /\ \A h \in 1..(k - 1) : frame.iter[h] \in frame.seen
         /\ frame' = [frame EXCEPT
                         !.iter = SubSeq(@, k + 1, Len(@)),
                         !.seen = @ \cup { frame.iter[k] },
                         !.yielded = Append(@, frame.iter[k])]
    /\ UNCHANGED threadVars

\* next() returning None: find takes every item left and accepts none
UniqueNone ==
    /\ frame.pc = "unique"
    /\ ~frame.exhausted
    /\ \A k \in 1..Len(frame.iter) : frame.iter[k] \in frame.seen
    /\ frame' = [frame EXCEPT !.iter = << >>, !.exhausted = TRUE]
    /\ UNCHANGED threadVars

UniqueNext ==
    \/ UniqueCall
    \/ UniqueSome
    \/ UniqueNone

SpecUnique == UniqueInit /\ [][UniqueNext]_vars

\* ------------------------------------------------------------------------
\* partition_dup on a Vec
\* ------------------------------------------------------------------------
\* a HashMap with the entry key -> value inserted (an entry the map held
\* for the key is replaced)
MapInsert(map, key, value) ==
    [k \in DOMAIN map \cup { key } |-> IF k = key THEN value ELSE map[k]]

\* (the entry of a key the map already holds is kept: entry().or_insert())
RECURSIVE FilterPassKeep(_, _, _)
FilterPassKeep(v, seen, filter) ==
    IF v = << >> THEN filter
    ELSE FilterPassKeep(Tail(v), seen \cup { Head(v) },
                        IF Head(v) \in DOMAIN filter THEN filter
                        ELSE MapInsert(filter, Head(v), Head(v) \notin seen))

\* self.iter().for_each(|item| filter.insert(item, seen.insert(item))): the
\* map `filter` after the items of v, `seen` and `filter` being those so far
RECURSIVE FilterPass(_, _, _)
FilterPass(v, seen, filter) ==
    IF v = << >> THEN filter
    ELSE FilterPass(Tail(v), seen \cup { Head(v) },
                    MapInsert(filter, Head(v), Head(v) \notin seen))

\* the second for_each: the items pushed to `unique` and to `duplicate`
PartitionBy(v, filter) ==
    [unique    |-> SelectSeq(v, LAMBDA item : filter[item]),
     duplicate |-> SelectSeq(v, LAMBDA item : ~filter[item])]

\* the Vec before the call
PartitionInit ==
    /\ ThreadsIdle
    /\ frame \in { [pc |-> "partition", input |-> v, vector |-> v,
                     returned |-> FALSE, unique |-> << >>,
                     duplicate |-> << >>] : v \in UniqueInputs }

\* vector.partition_dup()
PartitionDup ==
    /\ frame.pc = "partition"
    /\ ~frame.returned
    /\ LET parts == PartitionBy(frame.vector,
                                FilterPass(frame.vector, {}, << >>))
       IN  frame' = [frame EXCEPT !.returned = TRUE, !.unique = parts.unique,
                                  !.duplicate = parts.duplicate]
    /\ UNCHANGED threadVars

SpecPartition == PartitionInit /\ [][PartitionDup]_vars

\* ------------------------------------------------------------------------
\* IteratorBack: skip_last and skip_back on double-ended iterators
\* ------------------------------------------------------------------------
IterLen == 5
MaxSkip == 2
MaxOps == 4

\* the arrays and ranges iterated: 1..=L
IterInputs == { [i \in 1 .. len |-> i] : len \in 0 .. IterLen }

SaturatingSub(a, b) == IF a > b THEN a - b ELSE 0

\* a sequence without its first n and without its last n elements
DropFront(s, n) == SubSeq(s, n + 1, Len(s))
DropBack(s, n) == SubSeq(s, 1, SaturatingSub(Len(s), n))

\* An iterator built by the chains of the examples is the double-ended
\* iterator `base` (what remains of the array, range or split) wrapped in d
\* Skip adaptors, layers[1] the innermost, layers[d] the outermost;
\* layers[k] is the number of elements Skip k has still to skip.

\* ExactSizeIterator::len of the iterator under d adaptors
RECURSIVE LenAt(_, _, _)
LenAt(base, layers, d) ==
    IF d = 0 THEN Len(base)
    ELSE SaturatingSub(LenAt(base, layers, d - 1), layers[d])

\* the base after next_back() on the iterator under d adaptors: Skip hands
\* the call down only while it has an element of its own left
RECURSIVE NextBackAt(_, _, _)
NextBackAt(base, layers, d) ==
    IF d = 0 THEN DropBack(base, 1)
    ELSE IF LenAt(base, layers, d) > 0 THEN NextBackAt(base, layers, d - 1)
    ELSE base

\* the base after nth_back(m) on the iterator under d adaptors: Skip hands
\* down nth_back(m) when it has more than m elements, and uses up its own
\* elements otherwise
RECURSIVE NthBackAt(_, _, _, _)
NthBackAt(base, layers, d, m) ==
    IF d = 0 THEN DropBack(base, m + 1)
    ELSE LET len == LenAt(base, layers, d)
         IN  IF m < len THEN NthBackAt(base, layers, d - 1, m)
             ELSE IF len > 0 THEN NthBackAt(base, layers, d - 1, len - 1)
             ELSE base

\* the elements the iterator under d adaptors yields from the front
RECURSIVE CollectAt(_, _, _)
CollectAt(base, layers, d) ==
    IF d = 0 THEN base
    ELSE DropFront(CollectAt(base, layers, d - 1), layers[d])

\* let _last = self.next_back(); self
SkipLast(it) ==
    [it EXCEPT !.base = NextBackAt(it.base, it.layers, Len(it.layers))]

\* (nth_back(n) for nth_back(n - 1))
SkipBackOneMore(it, n) ==
    IF n > 0
    THEN [it EXCEPT !.base = NthBackAt(it.base, it.layers, Len(it.layers), n)]
    ELSE it

\* if n > 0 { let _last_n = self.nth_back(n - 1); } self
SkipBack(it, n) ==
    IF n > 0
    THEN [it EXCEPT
            !.base = NthBackAt(it.base, it.layers, Len(it.layers), n - 1)]
    ELSE it

\* Iterator::skip(n): one more Skip adaptor; it skips at the first next()
Skip(it, n) == [it EXCEPT !.layers = Append(it.layers, n)]

\* the iterator before any adaptor is applied; `front` and `back` add up the
\* numbers of elements the calls so far asked to remove from each end
IterInit ==
    /\ ThreadsIdle
    /\ frame \in { [pc |-> "iter", input |-> v,
                     it |-> [base |-> v, layers |-> << >>], ops |-> << >>,
                     front |-> 0, back |-> 0, collected |-> FALSE,
                     items |-> << >>]
                   : v \in IterInputs }

IterOpen ==
    /\ frame.pc = "iter"
    /\ ~frame.collected
    /\ Len(frame.ops) < MaxOps

\* iter.skip(n)
IterSkip ==
    /\ IterOpen
    /\ \E n \in 0 .. MaxSkip :
         frame' = [frame EXCEPT !.it = Skip(frame.it, n),
                     !.ops = Append(frame.ops, [op |-> "skip", n |-> n]),
                     !.front = frame.front + n]
    /\ UNCHANGED threadVars

\* iter.skip_back(n)
IterSkipBack ==
    /\ IterOpen
    /\ \E n \in 0 .. MaxSkip :
         frame' = [frame EXCEPT !.it = SkipBack(frame.it, n),
                     !.ops = Append(frame.ops, [op |-> "skip_back", n |-> n]),
                     !.back = frame.back + n]
    /\ UNCHANGED threadVars

\* iter.skip_last()
IterSkipLast ==
    /\ IterOpen
    /\ frame' = [frame EXCEPT !.it = SkipLast(frame.it),
                    !.ops = Append(frame.ops, [op |-> "skip_last", n |-> 1]),
                    !.back = frame.back + 1]
    /\ UNCHANGED threadVars

\* iter.collect()
IterCollect ==
    /\ frame.pc = "iter"
    /\ ~frame.collected
    /\ frame' = [frame EXCEPT !.collected = TRUE,
                    !.items = CollectAt(frame.it.base, frame.it.layers,
                                        Len(frame.it.layers))]
    /\ UNCHANGED threadVars

IterNext == IterSkip \/ IterSkipBack \/ IterSkipLast \/ IterCollect

SpecIter == IterInit /\ [][IterNext]_vars

\* ------------------------------------------------------------------------
\* IteratorExt::skip_last: SkipLastIterator over a Peekable
\* ------------------------------------------------------------------------
MaxChain == 3

\* Option<T>: Some(x), None being the empty sequence
Some(x) == << x >>

\* (the item is returned whatever peek() finds)
SkipLastMatchAll(next_item, peek) == next_item

\* match self.iter.peek() { Some(_) => next_item, None => None }
SkipLastMatch(next_item, peek) == IF peek # None THEN next_item ELSE None

\* A chain of d skip_last() adaptors over the iterator `base`: adaptor k
\* holds a Peekable whose field `peeked` is it.peeked[k], << >> when nothing
\* is stored and << item >> when peek() has stored the Option `item`;
\* adaptor 1 is the innermost.  Each operator returns the chain after the
\* call and the Option the call returns.
RECURSIVE SkipLastNextAt(_, _)
RECURSIVE PeekableNext(_, _)
RECURSIVE PeekablePeek(_, _)

\* Peekable::next of adaptor d: match self.peeked.take() { Some(v) => v,
\* None => self.iter.next() }
PeekableNext(it, d) ==
    IF it.peeked[d] # << >>
    THEN [it |-> [it EXCEPT !.peeked[d] = << >>], item |-> it.peeked[d][1]]
    ELSE SkipLastNextAt(it, d - 1)

\* Peekable::peek of adaptor d: self.peeked.get_or_insert_with(|| iter.next())
PeekablePeek(it, d) ==
    IF it.peeked[d] # << >>
    THEN [it |-> it, item |-> it.peeked[d][1]]
    ELSE LET r == SkipLastNextAt(it, d - 1)
         IN  [it |-> [r.it EXCEPT !.peeked[d] = << r.item >>],
              item |-> r.item]

\* next() of the iterator under d adaptors: the base iterator's next for
\* d = 0, SkipLastIterator::next otherwise
SkipLastNextAt(it, d) ==
    IF d = 0
    THEN IF it.base = << >>
         THEN [it |-> it, item |-> None]
         ELSE [it |-> [it EXCEPT !.base = Tail(it.base)],
               item |-> Some(Head(it.base))]
    ELSE LET next_item == PeekableNext(it, d)
             peek      == PeekablePeek(next_item.it, d)
         IN  [it |-> peek.it,
              item |-> SkipLastMatch(next_item.item, peek.item)]

\* iter.skip_last() ... .skip_last(): SkipLastIterator::new, MaxChain times
\* at most, nothing peeked yet
PeekInit ==
    /\ ThreadsIdle
    /\ frame \in { [pc |-> "skip_last", input |-> v,
                     it |-> [base |-> v, peeked |-> [k \in 1 .. d |-> << >>]],
                     items |-> << >>, finished |-> FALSE]
                   : v \in UniqueInputs, d \in 1 .. MaxChain }

\* collect() calls next() on the outermost adaptor until it returns None
PeekNextCall == SkipLastNextAt(frame.it, Len(frame.it.peeked))

PeekSome ==
    /\ frame.pc = "skip_last"
    /\ ~frame.finished
    /\ PeekNextCall.item # None
    /\ frame' = [frame EXCEPT !.it = PeekNextCall.it,
                    !.items = Append(frame.items, PeekNextCall.item[1])]
    /\ UNCHANGED threadVars

PeekNone ==
    /\ frame.pc = "skip_last"
    /\ ~frame.finished
    /\ PeekNextCall.item = None
    /\ frame' = [frame EXCEPT !.it = PeekNextCall.it, !.finished = TRUE]
    /\ UNCHANGED threadVars

PeekNext == PeekSome \/ PeekNone

SpecPeek == PeekInit /\ [][PeekNext]_vars

\* ------------------------------------------------------------------------
\* GetNChars and StrExtension: slices of a str
\* ------------------------------------------------------------------------
StrLen == 4

\* the characters of the strings tried, as code points: '1', '2', 'a', '|'
\* and the two-byte 'ç'
Chars == { 49, 50, 97, 124, 231 }

\* the delimiter bytes tried: b'|' and b'a'
Delimiters == { 124, 97 }

\* a str is the sequence of its chars
Strs == UNION { [1 .. len -> Chars] : len \in 0 .. StrLen }

\* a slice index that is out of order, out of range or inside a char
StrPanic == [kind |-> "Panic"]

\* the UTF-8 encoding of a char below U+0800
Utf8(c) == IF c < 128 THEN << c >> ELSE << 192 + (c \div 64), 128 + (c % 64) >>

\* s.bytes()
RECURSIVE StrBytes(_)
StrBytes(s) == IF s = << >> THEN << >> ELSE Utf8(Head(s)) \o StrBytes(Tail(s))

\* s.len(), in bytes
StrByteLen(s) == Len(StrBytes(s))

\* s.char_indices(): each char with the byte offset it starts at
CharIndices(s) ==
    [k \in 1 .. Len(s) |-> [pos |-> StrByteLen(SubSeq(s, 1, k - 1)),
                            ch  |-> s[k]]]

\* s.is_char_boundary(i)
IsCharBoundary(s, i) ==
    \/ i = StrByteLen(s)
    \/ \E k \in 1 .. Len(s) : CharIndices(s)[k].pos = i

\* &s[from..to]
StrSlice(s, from, to) ==
    IF from > to \/ ~IsCharBoundary(s, from) \/ ~IsCharBoundary(s, to)
    THEN StrPanic
    ELSE Ok(SelectSeq(CharIndices(s),
                      LAMBDA e : from <= e.pos /\ e.pos < to))

\* the chars of a slice taken from char_indices
CharsOf(r) ==
    IF r.kind = "Ok" THEN Ok([k \in 1 .. Len(r.value) |-> r.value[k].ch])
    ELSE r

\* char::is_ascii_digit
IsAsciiDigit(c) == c \in 48 .. 57

\* chars().map_while(|x| x.is_ascii_digit().then_some(x)).collect()
RECURSIVE SelectFirstDigits(_)
SelectFirstDigits(s) ==
    IF s = << >> \/ ~IsAsciiDigit(Head(s)) THEN << >>
    ELSE << Head(s) >> \o SelectFirstDigits(Tail(s))

\* let mut index = 0; for (idx, c) in self.char_indices() { if
\* !c.is_ascii_digit() { index = idx; break; } }
RetainIndex(s) ==
    LET stops == { k \in 1 .. Len(s) : ~IsAsciiDigit(s[k]) }
    IN  IF stops = {} THEN 0
        ELSE CharIndices(s)[CHOOSE k \in stops : \A j \in stops : k <= j].pos

\* retain_first_digits: &self[..index]
RetainFirstDigits(s) == CharsOf(StrSlice(s, 0, RetainIndex(s)))

\* bytes().position(|b| b == d) and bytes().rposition(|b| b == d), counted
\* from 0; None when no byte is d
BytePositions(s, d) ==
    { i \in 0 .. StrByteLen(s) - 1 : StrBytes(s)[i + 1] = d }
Position(s, d) ==
    IF BytePositions(s, d) = {} THEN None
    ELSE Some(CHOOSE i \in BytePositions(s, d) :
                \A j \in BytePositions(s, d) : i <= j)
RPosition(s, d) ==
    IF BytePositions(s, d) = {} THEN None
    ELSE Some(CHOOSE i \in BytePositions(s, d) :
                \A j \in BytePositions(s, d) : i >= j)

\* strip_prefix_and_sufix: from = position + 1 (self when there is none),
\* to = rposition.unwrap(), &self[from..to]
StripPrefixAndSufix(s, d) ==
    IF Position(s, d) = None THEN Ok(s)
    ELSE CharsOf(StrSlice(s, Position(s, d)[1] + 1, RPosition(s, d)[1]))

\* get_first_n_chars: char_indices().nth(num) is the char number num,
\* counted from 0; &self[..split_pos], self when there is no such char
GetFirstNChars(s, num) ==
    IF num < Len(s)
    THEN CharsOf(StrSlice(s, 0, CharIndices(s)[num + 1].pos))
    ELSE Ok(s)

\* get_last_n_chars: char_indices().nth_back(num - 1) is the char number
\* num - 1 counted from the back; &self[split_pos..], self when there is no
\* such char.  num - 1 is a usize subtraction: for num = 0 it panics in a
\* build with overflow checks and wraps to usize::MAX in a build without.
GetLastNChars(s, num) ==
    LET back == WrappingSub(U64(num), WordOne(U64Bits))
        wrapped ==
            IF Lt(back, U64(Len(s)))
            THEN CharsOf(StrSlice(s, CharIndices(s)[Len(s) - BitsNat(back)].pos,
                                  StrByteLen(s)))
            ELSE Ok(s)
    IN  IF num = 0 THEN { StrPanic, wrapped } ELSE { wrapped }

\* a str before a method is called on it
StrInit ==
    /\ ThreadsIdle
    /\ frame \in { [pc |-> "str", s |-> s, op |-> "none", arg |-> 0,
                     result |-> NoResult] : s \in Strs }

StrCall(op, arg, result) ==
    /\ frame.pc = "str"
    /\ frame.op = "none"
    /\ frame' = [frame EXCEPT !.op = op, !.arg = arg, !.result = result]
    /\ UNCHANGED threadVars

CallSelectFirstDigits ==
    StrCall("select_first_digits", 0, Ok(SelectFirstDigits(frame.s)))

CallRetainFirstDigits ==
    StrCall("retain_first_digits", 0, RetainFirstDigits(frame.s))

CallStripPrefixAndSufix ==
    \E d \in Delimiters :
        StrCall("strip_prefix_and_sufix", d, StripPrefixAndSufix(frame.s, d))

CallGetFirstNChars ==
    \E num \in 0 .. StrLen + 1 :
        StrCall("get_first_n_chars", num, GetFirstNChars(frame.s, num))

CallGetLastNChars ==
    \E num \in 0 .. StrLen + 1 :
        \E result \in GetLastNChars(frame.s, num) :
            StrCall("get_last_n_chars", num, result)

StrNext ==
    \/ CallSelectFirstDigits
    \/ CallRetainFirstDigits
    \/ CallStripPrefixAndSufix
    \/ CallGetFirstNChars
    \/ CallGetLastNChars

SpecStr == StrInit /\ [][StrNext]_vars

\* ------------------------------------------------------------------------
\* thousands_separator and add_sep
\* ------------------------------------------------------------------------
MaxScale == 3
MaxDecimals == 3

\* the absolute values formatted are mantissa / 10^scale, as Decimal::new
\* builds them; a float is such a value too
Mantissas ==
    { 0, 1, 25, 995, 1000, 9995, 99999, 123456, 999995, 1234567, 98765435 }

\* the values: numbers with their sign, Option's None, and the floats NaN
\* and infinity with their sign
SepValues ==
    [kind : { "number" }, neg : BOOLEAN, mantissa : Mantissas,
     scale : 0 .. MaxScale]
    \cup [kind : { "nan", "inf" }, neg : BOOLEAN, mantissa : { 0 },
          scale : { 0 }]
    \cup [kind : { "none" }, neg : { FALSE }, mantissa : { 0 }, scale : { 0 }]

FormatStyle == { "Euro", "PtBr", "Us" }

\* the bytes of the chars written
Dot == 46
Comma == 44
Minus == 45
Zero == 48

RECURSIVE Pow10(_)
Pow10(k) == IF k = 0 THEN 1 ELSE 10 * Pow10(k - 1)

\* the decimal digits of n as text, without leading zeros
RECURSIVE DecText(_)
DecText(n) ==
    IF n < 10 THEN << Zero + n >>
    ELSE Append(DecText(n \div 10), Zero + (n % 10))

\* the last `width` decimal digits of n as text, with leading zeros
RECURSIVE DecPadded(_, _)
DecPadded(n, width) ==
    IF width = 0 THEN << >>
    ELSE Append(DecPadded(n \div 10, width - 1), Zero + (n % 10))

\* mantissa / 10^drop rounded to an integer, a tie going to the even one
\* (round_dp_with_strategy(MidpointNearestEven); "{:.1$}" of a float)
RoundHalfEven(mantissa, drop) ==
    LET q    == mantissa \div Pow10(drop)
        rest == mantissa % Pow10(drop)
    IN  IF 2 * rest > Pow10(drop) \/ (2 * rest = Pow10(drop) /\ q % 2 = 1)
        THEN q + 1 ELSE q

\* "{:.1$}" of mantissa / 10^scale with `decimals` decimal places
FixedText(mantissa, scale, decimals) ==
    LET int  == IF decimals >= scale THEN mantissa \div Pow10(scale)
                ELSE RoundHalfEven(mantissa, scale - decimals)
                       \div Pow10(decimals)
        frac == IF decimals >= scale
                THEN DecPadded(mantissa % Pow10(scale), scale)
                       \o [k \in 1 .. decimals - scale |-> Zero]
                ELSE DecPadded(RoundHalfEven(mantissa, scale - decimals)
                                 % Pow10(decimals), decimals)
    IN  IF decimals = 0 THEN DecText(int)
        ELSE DecText(int) \o << Dot >> \o frac

\* write_abs: the text appended to the buffer
WriteAbs(value, decimals) ==
    CASE value.kind = "number" ->
           FixedText(value.mantissa, value.scale, decimals)
      [] value.kind = "none" -> FixedText(0, 0, decimals)
      [] value.kind = "nan"  -> << 78, 97, 78 >>
      [] value.kind = "inf"  -> << 105, 110, 102 >>

\* is_negative_num
IsNegativeNum(value) == value.neg

\* String::with_capacity(capacity)
WithCapacity(capacity) ==
    [cap |-> capacity, bytes |-> << >>, reallocated |-> FALSE]

\* push and push_str: the buffer grows, to twice its capacity at least,
\* when the bytes do not fit
PushStr(string, bytes) ==
    LET needed == Len(string.bytes) + Len(bytes)
    IN  IF needed <= string.cap
        THEN [string EXCEPT !.bytes = string.bytes \o bytes]
        ELSE [cap |-> IF needed > 2 * string.cap THEN needed
                      ELSE 2 * string.cap,
              bytes |-> string.bytes \o bytes, reallocated |-> TRUE]

\* abs_temp.split_once('.'): the text before and after the first '.', None
\* when there is none
SplitOnceDot(text) ==
    LET dots == { k \in 1 .. Len(text) : text[k] = Dot }
    IN  IF dots = {} THEN None
        ELSE LET k == CHOOSE k \in dots : \A j \in dots : k <= j
             IN  Some([i |-> SubSeq(text, 1, k - 1),
                       f |-> SubSeq(text, k + 1, Len(text))])

\* (integer_part.len() / 3)
NumSepsNoSub(integer_part) == Len(integer_part) \div 3

\* integer_part.len().saturating_sub(1) / 3
NumSeps(integer_part) == SaturatingSub(Len(integer_part), 1) \div 3

\* add_sep: the buffer after the bytes of `integer` numbered i .. len - 1,
\* a separator pushed before byte i when i > 0 and len - i is a multiple of 3
RECURSIVE AddSepFrom(_, _, _, _)
AddSepFrom(integer, separator, buffer, i) ==
    IF i >= Len(integer) THEN buffer
    ELSE Bind(PushStr(IF i > 0 /\ (Len(integer) - i) % 3 = 0
                      THEN PushStr(buffer, Utf8(separator))
                      ELSE buffer,
                      << integer[i + 1] >>),
              LAMBDA pushed : AddSepFrom(integer, separator, pushed, i + 1))

AddSep(integer, separator, buffer) == AddSepFrom(integer, separator, buffer, 0)

\* the arguments of a call
SepInit ==
    /\ ThreadsIdle
    /\ frame \in { [pc |-> "thousands_separator", value |-> v,
                     decimals |-> d, style |-> st, returned |-> FALSE,
                     abs_temp |-> WithCapacity(0), integer_part |-> << >>,
                     num_seps |-> 0, final_capacity |-> 0,
                     result |-> WithCapacity(0)]
                   : v \in SepValues, d \in 0 .. MaxDecimals,
                     st \in FormatStyle }

\* thousands_separator(value, decimals, style)
ThousandsSeparator ==
    /\ frame.pc = "thousands_separator"
    /\ ~frame.returned
    /\ LET abs_temp == PushStr(WithCapacity(20 + frame.decimals),
                               WriteAbs(frame.value, frame.decimals))
           thousands_sep == IF frame.style = "Us" THEN Comma ELSE Dot
           decimal_sep   == IF frame.style = "Us" THEN Dot ELSE Comma
           split == SplitOnceDot(abs_temp.bytes)
           whole == split = None \/ frame.decimals = 0
           integer_part  == IF whole THEN abs_temp.bytes ELSE split[1].i
           is_neg   == IsNegativeNum(frame.value)
           num_seps == NumSeps(integer_part)
           final_capacity ==
               Len(abs_temp.bytes) + num_seps * Len(Utf8(thousands_sep))
                 + (IF is_neg THEN 1 ELSE 0)
           signed == IF is_neg
                     THEN PushStr(WithCapacity(final_capacity), << Minus >>)
                     ELSE WithCapacity(final_capacity)
           separated == AddSep(integer_part, thousands_sep, signed)
           result == IF whole THEN separated
                     ELSE PushStr(PushStr(separated, Utf8(decimal_sep)),
                                  split[1].f)
       IN  frame' = [frame EXCEPT !.returned = TRUE, !.abs_temp = abs_temp,
                       !.integer_part = integer_part, !.num_seps = num_seps,
                       !.final_capacity = final_capacity, !.result = result]
    /\ UNCHANGED threadVars

SpecSep == SepInit /\ [][ThousandsSeparator]_vars

\* ------------------------------------------------------------------------
\* XorShiftRng::generate from a given state
\* ------------------------------------------------------------------------
GenCalls == 3

\* the states generate() is run from: zero, the words with a single bit
\* set, the word with every bit set
GenStates ==
    { WordZero(U64Bits), U64Max }
    \cup { Shl(WordOne(U64Bits), k) : k \in 0 .. U64Bits - 1 }

\* the clock readings a thread's generator is seeded from
GenReadings == ClockReadings \cup { WordOne(U64Bits), U64Max }

\* a generator: XorShiftRng::new(seed) for a given seed, or the thread-local
\* XorShiftRng::new(get_seed()) for a clock reading
GenInit ==
    /\ ThreadsIdle
    /\ frame \in
         { [pc |-> "generate", seeded |-> FALSE, start |-> New(seed),
            prev |-> New(seed), state |-> New(seed),
            value |-> WordZero(U64Bits), calls |-> 0] : seed \in GenStates }
         \cup
         { [pc |-> "generate", seeded |-> TRUE, start |-> New(GetSeed(n)),
            prev |-> New(GetSeed(n)), state |-> New(GetSeed(n)),
            value |-> WordZero(U64Bits), calls |-> 0] : n \in GenReadings }

\* rng.generate()
GenGenerate ==
    /\ frame.pc = "generate"
    /\ frame.calls < GenCalls
    /\ frame' = [frame EXCEPT !.prev = frame.state,
                    !.state = Generate(frame.state).state,
                    !.value = Generate(frame.state).value,
                    !.calls = frame.calls + 1]
    /\ UNCHANGED threadVars

SpecGen == GenInit /\ [][GenGenerate]_vars

\* ------------------------------------------------------------------------
\* rand() called over and over on one thread: single calls, and the loop of
\* the test gen_random
\* ------------------------------------------------------------------------
\* for n in 0..1000
Window == 1000

\* the single calls of rand() made before and after the loop
StreamExtra == 12

\* n calls of generate() in a row from the state `state`: the values
\* returned, in order, and the state reached (the calls taken in four runs)
RECURSIVE Draws(_, _)
Draws(state, n) ==
    IF n = 0 THEN [values |-> << >>, state |-> state]
    ELSE IF n = 1
    THEN LET g == Generate(state)
         IN  [values |-> << g.value >>, state |-> g.state]
    ELSE LET r1 == Draws(state, (n + 3) \div 4)
             r2 == Draws(r1.state, (n + 2) \div 4)
             r3 == Draws(r2.state, (n + 1) \div 4)
             r4 == Draws(r3.state, n \div 4)
         IN  [values |-> r1.values \o r2.values \o r3.values \o r4.values,
              state |-> r4.state]

\* the index of the first value of `values` that an earlier one equals, 0 if
\* there is none: where numbers.insert(random) first returns false
FirstRepeat(values) ==
    IF Cardinality({ values[k] : k \in 1..Len(values) }) = Len(values) THEN 0
    ELSE CHOOSE k \in 1..Len(values) :
             /\ \E h \in 1..(k - 1) : values[h] = values[k]
             /\ \A m \in 1..(k - 1) : \A h \in 1..(m - 1) : values[h] # values[m]

\* rand(), once
StreamRand ==
    /\ Cardinality({ k \in 1..Len(hist[Caller]) : hist[Caller][k].op = "rand" })
         < StreamExtra
    /\ ~Panicked(Caller)
    /\ \E n \in Readings(Caller) :
         LET g == Generate(Instance(Caller, n))
         IN  /\ Accessed(Caller, n, g.state, << g.value >>)
             /\ hist' = [hist EXCEPT ![Caller] =
                           Append(@, [op |-> "rand", value |-> g.value])]
    /\ UNCHANGED << vec, idx, frame >>

\* gen_random(): Window calls of rand(), each value inserted into a set;
\* the loop panics at the first value the set already holds
GenRandom ==
    /\ \A k \in 1..Len(hist[Caller]) : hist[Caller][k].op = "rand"
    /\ \E n \in Readings(Caller) :
         LET all    == Draws(Instance(Caller, n), Window)
             repeat == FirstRepeat(all.values)
         IN  IF repeat = 0
             THEN /\ Accessed(Caller, n, all.state, all.values)
                  /\ hist' = [hist EXCEPT ![Caller] =
                                Append(@, [op |-> "gen_random"])]
             ELSE /\ Accessed(Caller, n, Draws(Instance(Caller, n), repeat).state,
                              SubSeq(all.values, 1, repeat))
                  /\ hist' = [hist EXCEPT ![Caller] = Append(@, [op |-> "panic"])]
    /\ UNCHANGED << vec, idx, frame >>

StreamNext ==
    \/ StreamRand
    \/ GenRandom

SpecStream == Init /\ [][StreamNext]_vars

\* ------------------------------------------------------------------------
\* Properties of random_in_range (checked under SpecSampler)
\* ------------------------------------------------------------------------

\* a > b, read off the bits: at the highest bit where they differ a has 1
Greater(a, b) ==
    \E i \in 1..Len(a) :
        /\ a[i] = 1 /\ b[i] = 0
        /\ \A j \in (i + 1)..Len(a) : a[j] = b[j]

\* the word of width w written by a numeral, a non-empty sequence of digit
\* characters: the upper digits times 10^(number of lower digits), plus the
\* lower digits
RECURSIVE ParseDecimal(_, _)
ParseDecimal(chars, w) ==
    IF Len(chars) = 1
    THEN NatBits(CHOOSE k \in 0..9 : DigitChars[k + 1] = chars[1], w)
    ELSE LET n   == Len(chars)
             low == n \div 2
         IN  WrappingAdd(
                 WrappingMul(ParseDecimal(SubSeq(chars, 1, n - low), w), TenPow(low, w)),
                 ParseDecimal(SubSeq(chars, n - low + 1, n), w))

MsgMiddle == ") must be less than or equal to max ("

\* msg is "min (<a>) must be less than or equal to max (<b>)" where <a> and
\* <b> are decimal numerals of min and of max
CarriesBothBounds(msg, min, max) ==
    /\ Len(msg) >= 5
    /\ msg[1] = "min ("
    /\ msg[Len(msg)] = ")"
    /\ \E k \in 3..(Len(msg) - 2) :
         /\ msg[k] = MsgMiddle
         /\ \A i \in (2..(k - 1)) \cup ((k + 1)..(Len(msg) - 1)) :
              \E d \in 1..10 : DigitChars[d] = msg[i]
         /\ LET w == Len(min) + 4
            IN  /\ ParseDecimal(SubSeq(msg, 2, k - 1), w) = min \o WordZero(4)
                /\ ParseDecimal(SubSeq(msg, k + 1, Len(msg) - 1), w)
                     = max \o WordZero(4)

\* C1: random_in_range(min, max) returns an error for every min > max, without
\* drawing, and the error message is "min (<min>) must be less than or equal
\* to max (<max>)"; for every min <= max the call returns Ok.
C1_RangeValidity ==
    frame.pc = "returned" =>
        IF Greater(frame.min, frame.max)
        THEN /\ frame.result.kind = "Err"
             /\ frame.draws = 0
             /\ CarriesBothBounds(frame.result.msg, frame.min, frame.max)
        ELSE frame.result.kind = "Ok"

\* the call of the test random_in_range_errors_on_invalid_range has returned
\* the message the test expects
C1_Witness ==
    /\ frame.pc = "returned"
    /\ frame.min = U64(21) /\ frame.max = U64(20)
    /\ frame.result = Err(<< "min (", "2", "1",
                             ") must be less than or equal to max (",
                             "2", "0", ")" >>)

ValidRange == ~Greater(frame.min, frame.max)
InRange(v) == ~Greater(frame.min, v) /\ ~Greater(v, frame.max)
\* a word of the reduced width: its value is a number TLC can hold
Small(a) == Len(a) < U64Bits

\* C2: for every min <= max and every sequence of values rand() returns
\* (accepted at once, accepted after rejections, or the fallback draw), the
\* call returns Ok(v) with min <= v <= max: min + (draw % range_size) has not
\* overflowed and does not exceed max.
C2_RangeContainment ==
    (frame.pc = "returned" /\ ValidRange) =>
        /\ frame.result.kind = "Ok"
        /\ InRange(frame.result.value)

\* random_in_range(100, 200) has returned 178 from the fallback draw
\* u64::MAX, after 100 rejected draws
C2_Witness ==
    /\ frame.pc = "returned"
    /\ frame.min = U64(100) /\ frame.max = U64(200)
    /\ frame.draws = 101
    /\ frame.value = U64Max
    /\ frame.result = Ok(U64(178))

\* C3: when range_size has not wrapped to 0, the draws that pass the test
\* draw < rejection_threshold map evenly onto the range: every value of
\* [min, max] is min + (draw % range_size) for the same number of accepted
\* draws, floor(MAX / range_size).  (Counted over all draws, hence at the
\* reduced width, in the states where the first draw has been made.)
C3_EvenMapping ==
    (frame.pc \in {"loop", "returned"} /\ frame.draws = 1 /\ frame.attempt = 1
        /\ Small(frame.min)) =>
        LET w     == Len(frame.min)
            quota == (Pow2(w) - 1) \div BitsNat(frame.range_size)
        IN  \A v \in Words(w) :
                InRange(v) =>
                    Cardinality({ d \in Words(w) :
                        /\ Lt(d, frame.rejection_threshold)
                        /\ MapIntoRange(frame.min, d, frame.range_size) = Ok(v) })
                      = quota

\* at the reduced width, a call on a range of 3 values has accepted the draw
\* 2 and returned min + 2 % 3
C3_Witness ==
    /\ frame.pc = "returned"
    /\ Small(frame.min)
    /\ BitsNat(frame.min) = 1 /\ BitsNat(frame.max) = 3
    /\ frame.draws = 1
    /\ BitsNat(frame.value) = 2
    /\ frame.result.kind = "Ok" /\ BitsNat(frame.result.value) = 3

C5_BoundedRetries ==
    /\ [](/\ frame.attempt <= 100
          /\ frame.draws <= 101
          /\ (frame.pc = "returned" /\ ValidRange) => frame.result.kind = "Ok"
          /\ (frame.pc = "returned" /\ frame.draws = 101) =>
                 /\ frame.attempt = 100
                 /\ frame.result =
                      Ok(WrappingAdd(frame.min, Rem(frame.value, frame.range_size))))
    /\ <>(frame.pc = "returned")

\* at the reduced width, a call on a range of 3 values has had 100 draws
\* rejected and has returned min + (MAX % 3) from the 101st draw, MAX, which
\* is not below the threshold
C5_Witness ==
    /\ frame.pc = "returned"
    /\ Small(frame.min)
    /\ BitsNat(frame.min) = 1 /\ BitsNat(frame.max) = 3
    /\ frame.draws = 101
    /\ BitsNat(frame.value) = Pow2(Len(frame.min)) - 1
    /\ frame.result.kind = "Ok"
    /\ BitsNat(frame.result.value) = 1 + ((Pow2(Len(frame.min)) - 1) % 3)

\* C6: for every range_size in 1..=MAX, (MAX / range_size) * range_size does
\* not overflow and is the largest multiple of range_size that is <= MAX; so
\* at most range_size draws (those >= the threshold) are rejected.  (In the
\* states where at most one draw has been made.)
C6_Threshold ==
    (frame.pc \in {"loop", "returned"} /\ frame.draws <= 1
        /\ frame.rejection_threshold # None) =>
        LET w   == Len(frame.min)
            max == WordMax(w)
            rs  == frame.range_size
            t   == frame.rejection_threshold
        IN  /\ ~MulOverflows(Div(max, rs), rs)
            /\ Rem(t, rs) = WordZero(w)
            /\ Lt(WrappingSub(max, t), rs)
            /\ Small(t) =>
                 /\ BitsNat(t) % BitsNat(rs) = 0
                 /\ BitsNat(t) <= Pow2(w) - 1
                 /\ BitsNat(t) + BitsNat(rs) > Pow2(w) - 1
                 /\ Cardinality({ d \in Words(w) : ~Lt(d, t) }) <= BitsNat(rs)

\* random_in_range(0, 2^63): range_size = 2^63 + 1 is its own threshold, and
\* the draw u64::MAX has been rejected
C6_Witness ==
    /\ frame.pc = "loop"
    /\ frame.min = U64(0) /\ frame.max = U64Top
    /\ frame.rejection_threshold = frame.range_size
    /\ frame.draws = 1
    /\ frame.value = U64Max

\* the bits of x ^ (x >> k) and of x ^ (x << k), read off the bits of x
XorRight(x, k) ==
    Bits([i \in 1..Len(x) |->
            IF i + k <= Len(x) THEN (IF x[i] = x[i + k] THEN 0 ELSE 1) ELSE x[i]],
         Len(x))
XorLeft(x, k) ==
    Bits([i \in 1..Len(x) |->
            IF i - k >= 1 THEN (IF x[i] = x[i - k] THEN 0 ELSE 1) ELSE x[i]],
         Len(x))

\* x ^= x >> 12, x ^= x << 25, x ^= x >> 27, in that order
ThreeSteps(s) == XorRight(XorLeft(XorRight(s, 12), 25), 27)

\* x * m modulo 2^width: the sum of x << (i - 1) over the bits i of m that
\* are 1, for the bits lo..hi of m
RECURSIVE ShiftAddRange(_, _, _, _)
ShiftAddRange(x, m, lo, hi) ==
    IF lo = hi
    THEN (IF m[lo] = 1 THEN Shl(x, lo - 1) ELSE WordZero(Len(x)))
    ELSE LET mid == (lo + hi) \div 2
         IN  WrappingAdd(ShiftAddRange(x, m, lo, mid),
                         ShiftAddRange(x, m, mid + 1, hi))

\* 0x2545F4914F6CDD1D, from its binary digits (most significant first)
StarFactor ==
    Bits([i \in 1..64 |->
            << 0,0,1,0, 0,1,0,1, 0,1,0,0, 0,1,0,1, 1,1,1,1, 0,1,0,0, 1,0,0,1,
               0,0,0,1, 0,1,0,0, 1,1,1,1, 0,1,1,0, 1,1,0,0, 1,1,0,1, 1,1,0,1,
               0,0,0,1, 1,1,0,1 >>[65 - i]], 64)

\* generate() run from state s has returned the values vals, in order, and
\* has left the state final, as the claim describes generate
RECURSIVE FollowsGenerate(_, _, _)
FollowsGenerate(s, vals, final) ==
    IF vals = << >> THEN s = final
    ELSE LET s1 == ThreeSteps(s)
         IN  /\ Head(vals) = ShiftAddRange(s1, StarFactor, 1, 64)
             /\ FollowsGenerate(s1, Tail(vals), final)

\* the state generate() started from in a step of thread t
PriorState(t) == IF rng[t] = NotCreated THEN GetSeed(nanos'[t]) ELSE rng[t]

\* C7: each generate() replaces the state s by s', the result of
\* x ^= x >> 12, x ^= x << 25, x ^= x >> 27 in that order on 64 bits, and
\* returns s' * 0x2545F4914F6CDD1D modulo 2^64, a function of s alone: in
\* every step, the values a thread's generator has returned and the state it
\* is left in are those the three steps and the product give from the state
\* it was in.
C7_Generate ==
    [][\A t \in Threads :
          Len(out'[t]) > Len(out[t]) =>
              FollowsGenerate(PriorState(t),
                              SubSeq(out'[t], Len(out[t]) + 1, Len(out'[t])),
                              rng'[t])]_vars

\* seeded with 12345, a generator has returned 0x9857FB32C9EFB5E4 and then
\* 0xC0CEBA4B4A71BCE4, and is in state 0xC0E40E800086AF34
C7_Witness ==
    \E t \in Threads :
        /\ nanos[t] = U64(12345)
        /\ out[t] = << HexWord(<< 9, 8, 5, 7, 15, 11, 3, 2, 12, 9, 14, 15, 11, 5, 14, 4 >>),
                       HexWord(<< 12, 0, 12, 14, 11, 10, 4, 11, 4, 10, 7, 1, 11, 12, 14, 4 >>) >>
        /\ rng[t] = HexWord(<< 12, 0, 14, 4, 0, 14, 8, 0, 0, 0, 8, 6, 10, 15, 3, 4 >>)

\* the first n elements of s
Prefix(s, n) == SubSeq(s, 1, n)

C9_ZeroSeed ==
    \A t \in Threads :
        /\ rng[t] # NotCreated => rng[t] # U64(0)
        /\ \A k \in 1..Len(out[t]) : out[t][k] # U64(0)
        /\ (nanos[t] = U64(0) /\ Len(out[t]) >= 2) => out[t][1] # out[t][2]

\* a generator created when the clock read 0 has returned two values
C9_Witness ==
    \E t \in Threads :
        /\ nanos[t] = U64(0)
        /\ Len(out[t]) >= 2
        /\ rng[t] # NotCreated

\* n calls of generate() from the state `state`, on their own: the state
\* reached and the values returned
RECURSIVE RunAlone(_, _)
RunAlone(state, n) ==
    IF n = 0 THEN [values |-> << >>, state |-> state]
    ELSE LET g    == Generate(state)
             rest == RunAlone(g.state, n - 1)
         IN  [values |-> << g.value >> \o rest.values, state |-> rest.state]

\* C10: each thread has its own generator.  Under every interleaving of
\* rand, random_in_range and shuffle calls on the threads, the values a
\* thread has obtained and the state of its generator are those of a
\* generator run alone from the thread's seed, and a generator's state
\* changes only in a step of its own thread.
C10_ThreadPrivate ==
    /\ [](\A t \in Threads :
            IF out[t] = << >> THEN rng[t] = NotCreated
            ELSE /\ nanos[t] # None
                 /\ RunAlone(New(GetSeed(nanos[t])), Len(out[t]))
                      = [state |-> rng[t], values |-> out[t]])
    /\ [][\A t \in Threads : rng'[t] # rng[t] => hist'[t] # hist[t]]_vars

\* thread 1 is in the middle of a shuffle, having drawn for one swap, and
\* thread 2, seeded from another clock reading, has drawn too
C10_Witness ==
    /\ idx[1] >= 1
    /\ Len(hist[1]) = 2 /\ hist[1][2].op = "swap"
    /\ out[1] # << >> /\ out[2] # << >>
    /\ nanos[1] # nanos[2]

\* the values thread t obtains in a step
Drawn(t) == SubSeq(out'[t], Len(out[t]) + 1, Len(out'[t]))

\* C11: on each thread the generator is created and seeded once, at the
\* first draw made on the thread.  Before that draw the generator does not
\* exist and the clock has not been read for it; the first draw seeds it
\* from one clock reading; afterwards the reading and the generator stay,
\* and every later draw continues from the state the previous one left.
C11_SeededOnce ==
    /\ [](\A t \in Threads :
            /\ (out[t] = << >>) <=> (rng[t] = NotCreated)
            /\ (out[t] = << >>) <=> (nanos[t] = None))
    /\ [][\A t \in Threads :
            /\ nanos[t] # None => nanos'[t] = nanos[t]
            /\ rng[t] # NotCreated => rng'[t] # NotCreated
            /\ (rng[t] = NotCreated /\ rng'[t] # NotCreated) =>
                  /\ nanos'[t] \in ClockReadings
                  /\ RunAlone(New(GetSeed(nanos'[t])), Len(Drawn(t)))
                       = [state |-> rng'[t], values |-> Drawn(t)]
            /\ (rng[t] # NotCreated /\ out'[t] # out[t]) =>
                  RunAlone(rng[t], Len(Drawn(t)))
                    = [state |-> rng'[t], values |-> Drawn(t)]]_vars

\* a thread has made two calls that drew, the second on the generator the
\* first one created
C11_Witness ==
    \E t \in Threads :
        /\ Len(hist[t]) = 2
        /\ hist[t][1].op = "rand" /\ hist[t][2].op = "rand"
        /\ Len(out[t]) = 2
        /\ nanos[t] # None

\* thread t calls random_in_range in this step, from outside or from
\* shuffle, and the call returns
RangeCall(t) ==
    /\ Len(hist'[t]) = Len(hist[t]) + 1
    /\ hist'[t][Len(hist'[t])].op \in { "random_in_range", "swap" }

\* the arguments of that call
RangeCallArgs(t) ==
    LET c == hist'[t][Len(hist'[t])]
    IN  IF c.op = "swap" THEN << U64(0), U64(c.i) >> ELSE << c.min, c.max >>

\* C12, as the spec states it: each call to random_in_range advances the
\* calling thread's generator state by one or more draws.
C12_EveryCallDraws ==
    [][\A t \in Threads :
          RangeCall(t) => /\ Len(Drawn(t)) >= 1
                          /\ rng'[t] # rng[t]]_vars

\* C12, amended: a call with min <= max advances the calling thread's
\* generator by one or more draws (the state after the call is the state
\* before it moved on by as many generate() calls as values were drawn, and
\* differs from it); a call with min > max returns before any draw and
\* leaves the generator as it was, not created if it was not.
C12_ValidCallDraws ==
    [][\A t \in Threads :
          RangeCall(t) =>
              IF Lt(RangeCallArgs(t)[2], RangeCallArgs(t)[1])
              THEN /\ Drawn(t) = << >>
                   /\ rng'[t] = rng[t]
                   /\ nanos'[t] = nanos[t]
              ELSE /\ Len(Drawn(t)) >= 1
                   /\ rng'[t] # rng[t]
                   /\ rng'[t] = RunAlone(PriorState(t), Len(Drawn(t))).state]_vars

\* one thread has called random_in_range(1, 20) and drawn, another has
\* called random_in_range(21, 20) and has no generator
C12_Witness ==
    \E t \in Threads : \E u \in Threads \ {t} :
        /\ Len(hist[t]) = 1 /\ hist[t][1].op = "random_in_range"
        /\ hist[t][1].result.kind = "Ok"
        /\ Len(out[t]) >= 1
        /\ Len(hist[u]) = 1 /\ hist[u][1].op = "random_in_range"
        /\ hist[u][1].result.kind = "Err"
        /\ rng[u] = NotCreated

\* how many times e occurs in the sequence s
Count(e, s) == Cardinality({ k \in 1..Len(s) : s[k] = e })

\* the elements of the sequence s
Elements(s) == { s[k] : k \in 1..Len(s) }

\* the slice the caller's shuffle was given
Input == hist[Caller][1].input

\* C13: shuffle keeps the length and the multiset of elements: after the
\* call has started and after every swap, the slice has the length of the
\* input and each value occurs in it as many times as in the input.
C13_PreservesElements ==
    hist[Caller] # << >> =>
        /\ Len(vec[Caller]) = Len(Input)
        /\ \A e \in Elements(Input) \cup Elements(vec[Caller]) :
              Count(e, vec[Caller]) = Count(e, Input)

\* a slice with repeated elements, in the middle of a shuffle, after a swap
\* that has changed it
C13_Witness ==
    /\ Len(hist[Caller]) = 2
    /\ Input = << 1, 1, 2, 2 >>
    /\ hist[Caller][2].op = "swap"
    /\ vec[Caller] # Input
    /\ idx[Caller] >= 1

\* the k-th call of thread t is a shuffle of a slice of length 0 or 1
ShortShuffle(t, k) ==
    /\ hist[t][k].op = "shuffle"
    /\ Len(hist[t][k].input) <= 1

\* C14: shuffling a slice of length 0 or 1 is a no-op.  The step that makes
\* the call leaves the thread's generator and the values drawn on the thread
\* as they were, and leaves no pass of the loop to run; afterwards the slice
\* is the input, and what the thread does next is not a swap of that call
\* (nor a panic in it).
C14_ShortShuffle ==
    /\ [](\A t \in Threads : \A k \in 1..Len(hist[t]) :
            ShortShuffle(t, k) =>
                /\ k = Len(hist[t]) => (vec[t] = hist[t][k].input /\ idx[t] = 0)
                /\ k < Len(hist[t]) => hist[t][k + 1].op \notin { "swap", "panic" })
    /\ [][\A t \in Threads :
            (/\ Len(hist'[t]) = Len(hist[t]) + 1
             /\ hist'[t][Len(hist'[t])].op = "shuffle"
             /\ Len(hist'[t][Len(hist'[t])].input) <= 1) =>
                /\ rng'[t] = rng[t]
                /\ out'[t] = out[t]
                /\ nanos'[t] = nanos[t]
                /\ idx'[t] = 0]_vars

\* a thread has shuffled a one-element slice and then called rand(): the
\* value it got is the first of its generator, created by that call
C14_Witness ==
    \E t \in Threads :
        /\ Len(hist[t]) = 2
        /\ ShortShuffle(t, 1) /\ Len(hist[t][1].input) = 1
        /\ hist[t][2].op = "rand"
        /\ Len(out[t]) = 1
        /\ vec[t] = hist[t][1].input

\* C15: shuffle does not fail.  No pass of the loop panics, whatever value
\* is drawn; every pass made has called random_in_range(0, i) with
\* 1 <= i <= len - 1 and has swapped indices j <= i < len; and the pass to
\* come, if any, has such an i, for which (0, i) is a valid range.
C15_ShuffleNeverFails ==
    hist[Caller] # << >> =>
        /\ ~Panicked(Caller)
        /\ \A k \in 2..Len(hist[Caller]) :
              /\ hist[Caller][k].op = "swap"
              /\ 1 <= hist[Caller][k].i
              /\ hist[Caller][k].i <= Len(Input) - 1
              /\ 0 <= hist[Caller][k].j
              /\ hist[Caller][k].j <= hist[Caller][k].i
        /\ idx[Caller] >= 1 =>
              /\ idx[Caller] <= Len(vec[Caller]) - 1
              /\ ~InvalidRange(U64(0), U64(idx[Caller]))
        /\ idx[Caller] = 0 =>
              Len(hist[Caller]) = IF Len(Input) >= 2 THEN Len(Input) ELSE 1

\* a slice of ShuffleLen elements has been shuffled to the end: one swap for
\* each i from len - 1 down to 1, the last of them with j = i
C15_Witness ==
    /\ Len(hist[Caller]) = ShuffleLen
    /\ Len(Input) = ShuffleLen
    /\ idx[Caller] = 0
    /\ hist[Caller][2].i = ShuffleLen - 1
    /\ hist[Caller][ShuffleLen].i = 1 /\ hist[Caller][ShuffleLen].j = 1

\* the loop of shuffle run on v from index i down to 1, the indices js being
\* those random_in_range returns, in the order of the calls
RECURSIVE ShuffleWith(_, _, _)
ShuffleWith(v, i, js) ==
    IF i = 0 THEN v
    ELSE ShuffleWith(Swap(v, i, Head(js)), i - 1, Tail(js))

\* the vectors of indices a shuffle of n elements may be given: one j for
\* each i from n - 1 down to 1, with 0 <= j <= i
ChoiceVectors(n) ==
    { js \in [1..(n - 1) -> 0..(n - 1)] : \A k \in 1..(n - 1) : js[k] <= n - k }

\* the orderings of the sequence v
Orderings(v) ==
    { [k \in 1..Len(v) |-> v[p[k]]] : p \in Permutations(1..Len(v)) }

RECURSIVE Factorial(_)
Factorial(n) == IF n = 0 THEN 1 ELSE n * Factorial(n - 1)

\* the indices the caller's shuffle has been given so far
Choices == [k \in 1..(Len(hist[Caller]) - 1) |-> hist[Caller][k + 1].j]

\* whether the elements of v are pairwise distinct
Distinct(v) == Cardinality(Elements(v)) = Len(v)

\* C16: for a slice of n distinct elements, the map from the vector of
\* chosen indices to the resulting ordering is a bijection onto the n!
\* orderings.  Every index 0..i can be drawn at each pass; the finished
\* shuffle is the image of the indices it was given and of no other vector;
\* and the images of all vectors are all the orderings, n! of them.
C16_UniformOrderings ==
    (hist[Caller] # << >> /\ Distinct(Input) /\ Len(Input) >= 1) =>
        LET n == Len(Input)
        IN  /\ idx[Caller] >= 1 =>
                  \A j \in 0..idx[Caller] : \E value \in ShuffleDraws :
                      LastDraw(U64(0), U64(idx[Caller]), value) = Ok(U64(j))
            /\ idx[Caller] = 0 =>
                  /\ Choices \in ChoiceVectors(n)
                  /\ vec[Caller] = ShuffleWith(Input, n - 1, Choices)
                  /\ \A js \in ChoiceVectors(n) :
                        ShuffleWith(Input, n - 1, js) = vec[Caller] => js = Choices
                  /\ { ShuffleWith(Input, n - 1, js) : js \in ChoiceVectors(n) }
                       = Orderings(Input)
                  /\ Cardinality(Orderings(Input)) = Factorial(n)
                  /\ Cardinality(ChoiceVectors(n)) = Factorial(n)

\* the slice 1, 2, 3, 4 has been shuffled into 4, 3, 2, 1
C16_Witness ==
    /\ hist[Caller] # << >>
    /\ Input = << 1, 2, 3, 4 >>
    /\ idx[Caller] = 0
    /\ vec[Caller] = << 4, 3, 2, 1 >>

\* the runs of consecutive values a thread has drawn: each run of Window
\* values, or all the values while there are fewer
Runs(t) ==
    { SubSeq(out[t], first, IF first + Window - 1 < Len(out[t])
                            THEN first + Window - 1 ELSE Len(out[t])) :
        first \in 1..(IF Len(out[t]) > Window THEN Len(out[t]) - Window + 1 ELSE 1) }

\* C17: on one thread, any Window consecutive rand() calls return pairwise
\* distinct values, so the loop of gen_random does not panic; and every call
\* changes the state of the generator.
C17_DistinctValues ==
    /\ [](\A t \in Threads :
            /\ ~Panicked(t)
            /\ \A run \in Runs(t) : Distinct(run))
    /\ [][\A t \in Threads :
            Len(out'[t]) > Len(out[t]) => rng'[t] # rng[t]]_vars

\* a thread has called rand() once and then run the loop of gen_random: it
\* has drawn Window + 1 values, of which two runs of Window are consecutive
C17_Witness ==
    /\ Len(hist[Caller]) = 2
    /\ hist[Caller][1].op = "rand"
    /\ hist[Caller][2].op = "gen_random"
    /\ Len(out[Caller]) = Window + 1
    /\ Cardinality(Runs(Caller)) = 2
    /\ nanos[Caller] = U64(0)

\* C18: for every slice and every n_pieces, the iterator yields exactly
\* n_pieces subsets of the slice: when it has returned None, it has returned
\* n_pieces items before.
C18_ExactlyNPieces ==
    frame.pc = "finished" => Len(frame.items) = frame.pieces_wanted

\* the sequences of ss, one after the other
RECURSIVE Concat(_)
Concat(ss) == IF ss = << >> THEN << >> ELSE Head(ss) \o Concat(Tail(ss))

\* C19: for n_pieces >= 1, the pieces the iterator yields, in order, make up
\* the slice: the items returned so far followed by what is left to split
\* are the slice, and once None is returned the items alone are.  Every
\* piece has length floor(L / n_pieces) or one more, and no piece is longer
\* than one yielded before it.  No call of next() panics.
C19_PiecesPartition ==
    frame.pc \in { "iterating", "finished", "panicked" } /\ frame.pieces_wanted >= 1 =>
        LET size == Len(frame.data) \div frame.pieces_wanted
        IN  /\ frame.pc # "panicked"
            /\ Concat(frame.items) \o frame.data_slice = frame.data
            /\ frame.pc = "finished" => Concat(frame.items) = frame.data
            /\ \A k \in 1..Len(frame.items) :
                  Len(frame.items[k]) \in { size, size + 1 }
            /\ \A k \in 2..Len(frame.items) :
                  Len(frame.items[k]) <= Len(frame.items[k - 1])

\* five elements split into three pieces: two of two elements, then one of
\* one
C19_Witness ==
    /\ frame.pc = "finished"
    /\ frame.data = << 1, 2, 3, 4, 5 >>
    /\ frame.pieces_wanted = 3
    /\ frame.items = << << 1, 2 >>, << 3, 4 >>, << 5 >> >>

\* v with every element that occurs earlier in it removed
FirstOccurrences(v) ==
    LET firsts == { k \in 1..Len(v) : \A h \in 1..(k - 1) : v[h] # v[k] }
        \* the position in v of the n-th of them
        at[n \in 1..Cardinality(firsts)] ==
            CHOOSE k \in firsts : Cardinality({ h \in firsts : h < k }) = n - 1
    IN  [n \in 1..Cardinality(firsts) |-> v[at[n]]]

\* C20: unique() keeps the first occurrence of each distinct element, in
\* order: after a call the vector has no duplicates, has the elements of the
\* input, and is the input with every later occurrence removed; a second
\* call changes nothing; and get_unique() yields the same elements in the
\* same order, its items so far being the first of them.
C20_UniqueFirstOccurrences ==
    frame.pc = "unique" =>
        /\ frame.calls >= 1 =>
              /\ Distinct(frame.vector)
              /\ Elements(frame.vector) = Elements(frame.input)
              /\ frame.vector = FirstOccurrences(frame.input)
        /\ frame.yielded
             = Prefix(FirstOccurrences(frame.input), Len(frame.yielded))
        /\ frame.exhausted => frame.yielded = FirstOccurrences(frame.input)
        /\ (frame.exhausted /\ frame.calls >= 1) => frame.yielded = frame.vector

\* 1, 3, 1, 2 has been deduplicated twice and iterated to the end: both give
\* 1, 3, 2
C20_Witness ==
    /\ frame.pc = "unique"
    /\ frame.input = << 1, 3, 1, 2 >>
    /\ frame.calls = 2
    /\ frame.vector = << 1, 3, 2 >>
    /\ frame.exhausted
    /\ frame.yielded = << 1, 3, 2 >>

\* C21: partition_dup returns (unique, duplicate): unique is the input
\* without the elements that occur more than once, duplicate is the input
\* without the elements that occur once, both in input order; the vector is
\* left as it was and the two lengths add up to its length.
C21_PartitionDup ==
    (frame.pc = "partition" /\ frame.returned) =>
        /\ frame.unique
             = SelectSeq(frame.input, LAMBDA x : Count(x, frame.input) = 1)
        /\ frame.duplicate
             = SelectSeq(frame.input, LAMBDA x : Count(x, frame.input) > 1)
        /\ frame.vector = frame.input
        /\ Len(frame.unique) + Len(frame.duplicate) = Len(frame.input)

\* 1, 3, 1, 2 has been partitioned into 3, 2 and 1, 1
C21_Witness ==
    /\ frame.pc = "partition" /\ frame.returned
    /\ frame.input = << 1, 3, 1, 2 >>
    /\ frame.unique = << 3, 2 >>
    /\ frame.duplicate = << 1, 1 >>

\* C22: for an iterator of length L, skip_back(n) alone yields the first
\* max(0, L - n) elements (all of them for n = 0, none for n >= L);
\* skip_last() leaves the iterator that skip_back(1) leaves; and a chain of
\* skip(k), skip_back(n) and skip_last() calls yields the input without the
\* elements asked to be removed from the front and from the back.
C22_SkipBack ==
    frame.pc = "iter" =>
        /\ ~frame.collected =>
              SkipLast(frame.it) = SkipBack(frame.it, 1)
        /\ (frame.collected /\ Len(frame.ops) = 1
              /\ frame.ops[1].op = "skip_back") =>
              /\ frame.items
                   = SubSeq(frame.input, 1,
                            IF Len(frame.input) > frame.ops[1].n
                            THEN Len(frame.input) - frame.ops[1].n ELSE 0)
              /\ frame.ops[1].n = 0 => frame.items = frame.input
              /\ frame.ops[1].n >= Len(frame.input) =>
                    frame.items = << >>
        /\ frame.collected =>
              frame.items
                = SubSeq(frame.input, frame.front + 1,
                         Len(frame.input) - frame.back)

\* 1..=5 after skip(1), skip_back(2), skip(1) yields 3
C22_Witness ==
    /\ frame.pc = "iter"
    /\ frame.input = << 1, 2, 3, 4, 5 >>
    /\ frame.ops = << [op |-> "skip", n |-> 1], [op |-> "skip_back", n |-> 2],
                      [op |-> "skip", n |-> 1] >>
    /\ frame.collected /\ frame.items = << 3 >>

\* the iterator left by k calls of IteratorBack::skip_last
RECURSIVE SkipLastTimes(_, _)
SkipLastTimes(it, k) ==
    IF k = 0 THEN it ELSE SkipLast(SkipLastTimes(it, k - 1))

\* C23: a chain of k IteratorExt::skip_last adaptors yields the input
\* without its last k elements, in order: everything but the final element
\* for k = 1, nothing for an input of at most k elements; these are the
\* elements the double-ended IteratorBack::skip_last, applied k times,
\* leaves.  While the chain is being consumed the items are a prefix of them.
C23_PeekSkipLast ==
    frame.pc = "skip_last" =>
        LET k      == Len(frame.it.peeked)
            L      == Len(frame.input)
            kept   == IF L > k THEN L - k ELSE 0
            backIt == SkipLastTimes([base |-> frame.input,
                                     layers |-> << >>], k)
        IN  /\ Len(frame.items) <= kept
            /\ frame.items = SubSeq(frame.input, 1, Len(frame.items))
            /\ frame.finished =>
                  /\ frame.items = SubSeq(frame.input, 1, kept)
                  /\ frame.items = CollectAt(backIt.base, backIt.layers, 0)
                  /\ L <= 1 => frame.items = << >>

\* 1, 2, 3, 1 under two skip_last adaptors has yielded 1, 2 and finished
C23_Witness ==
    /\ frame.pc = "skip_last" /\ frame.finished
    /\ frame.input = << 1, 2, 3, 1 >>
    /\ Len(frame.it.peeked) = 2
    /\ frame.items = << 1, 2 >>

\* the longest prefix of s made only of ASCII digits
DigitPrefix(s) ==
    LET lens == { n \in 0 .. Len(s) : \A k \in 1 .. n : IsAsciiDigit(s[k]) }
    IN  SubSeq(s, 1, CHOOSE n \in lens : \A m \in lens : n >= m)

\* C24: retain_first_digits returns the longest prefix of s made only of
\* ASCII digits, the text select_first_digits returns for s.
C24_RetainFirstDigits ==
    (frame.pc = "str" /\ frame.op = "retain_first_digits") =>
        /\ frame.result = Ok(DigitPrefix(frame.s))
        /\ frame.result = Ok(SelectFirstDigits(frame.s))

\* the positions of the chars of s that are the delimiter d
Occurrences(s, d) == { k \in 1 .. Len(s) : s[k] = d }

\* C25: strip_prefix_and_sufix(d) returns a value whatever the number of
\* occurrences of d in s, exactly one included: s itself when d does not
\* occur, and otherwise the text strictly between the first and the last
\* occurrence of d.
C25_StripBetween ==
    (frame.pc = "str" /\ frame.op = "strip_prefix_and_sufix") =>
        LET occ == Occurrences(frame.s, frame.arg)
        IN  /\ frame.result.kind = "Ok"
            /\ occ = {} => frame.result.value = frame.s
            /\ occ # {} =>
                  \E first, last \in occ :
                      /\ \A k \in occ : first <= k /\ k <= last
                      /\ frame.result.value
                           = SubSeq(frame.s, first + 1, last - 1)

\* C26: get_first_n_chars(n) returns the first n chars of s and
\* get_last_n_chars(n) the last n, the whole of s when n is at least the
\* number of its chars and the empty string when n = 0.
C26_FirstAndLastNChars ==
    LET L == Len(frame.s)
        n == IF frame.arg < L THEN frame.arg ELSE L
    IN  /\ (frame.pc = "str" /\ frame.op = "get_first_n_chars") =>
              frame.result = Ok(SubSeq(frame.s, 1, n))
        /\ (frame.pc = "str" /\ frame.op = "get_last_n_chars") =>
              frame.result = Ok(SubSeq(frame.s, L - n + 1, L))

\* the number of bytes of the text that are the byte b
CountByte(text, b) == Cardinality({ k \in 1 .. Len(text) : text[k] = b })

\* the thousands separator of the call's style
ThousandsSep == IF frame.style = "Us" THEN Comma ELSE Dot

\* the part of the result add_sep wrote: after the sign, before the
\* decimal separator
Separated ==
    LET text  == frame.result.bytes
        start == IF frame.value.neg THEN 2 ELSE 1
    IN  SubSeq(text, start,
               start + Len(frame.integer_part) + frame.num_seps - 1)

\* C27: the byte length of the string thousands_separator returns is
\* final_capacity, the length of the raw absolute text plus the number of
\* separators plus one for a negative value; the number of separators
\* computed before, (len(integer part) - 1) / 3, is the number add_sep
\* inserts; and the result buffer, allocated with final_capacity, is never
\* reallocated.
C27_ExactCapacity ==
    (frame.pc = "thousands_separator" /\ frame.returned) =>
        /\ Len(frame.result.bytes) = frame.final_capacity
        /\ frame.final_capacity
             = Len(frame.abs_temp.bytes) + frame.num_seps
                 + (IF frame.value.neg THEN 1 ELSE 0)
        /\ Len(frame.integer_part) >= 1
        /\ frame.num_seps = (Len(frame.integer_part) - 1) \div 3
        /\ CountByte(Separated, ThousandsSep) = frame.num_seps
        /\ Len(frame.result.bytes)
             = Len(frame.abs_temp.bytes)
                 + CountByte(Separated, ThousandsSep)
                 + (IF frame.value.neg THEN 1 ELSE 0)
        /\ ~frame.result.reallocated
        /\ frame.result.cap = frame.final_capacity

\* -1234567 with two decimals in the PtBr style: "-1.234.567,00", two
\* separators, 13 bytes
C27_Witness ==
    /\ frame.pc = "thousands_separator" /\ frame.returned
    /\ frame.value = [kind |-> "number", neg |-> TRUE, mantissa |-> 1234567,
                      scale |-> 0]
    /\ frame.decimals = 2 /\ frame.style = "PtBr"
    /\ frame.result.bytes
         = << 45, 49, 46, 50, 51, 52, 46, 53, 54, 55, 44, 48, 48 >>
    /\ frame.num_seps = 2 /\ frame.final_capacity = 13

\* the number of entries of the caller's history when the shuffle of a slice
\* of length n is over: the call, and n - 1 passes when n >= 2
HistoryWhenDone(n) == IF n >= 2 THEN n ELSE 1

\* the passes so far are those for i = n - 1, n - 2, ... in this order, each
\* with an index j in 0..i, and the loop index stands at the next i
PassesInOrder ==
    hist[Caller] # << >> =>
        LET n == Len(Input)
            h == hist[Caller]
        IN  /\ Len(h) <= HistoryWhenDone(n)
            /\ idx[Caller] = HistoryWhenDone(n) - Len(h)
            /\ \A k \in 2 .. Len(h) :
                  /\ h[k].op = "swap"
                  /\ h[k].i = n - k + 1
                  /\ h[k].j \in 0 .. h[k].i

\* a step of a started shuffle is the pass for the loop index i: one
\* random_in_range(0, i) call that returns j, then swap(i, j), which leaves
\* every position above i, those of the passes already made, as it is
PassIsCallThenSwap ==
    hist[Caller] # << >> =>
        LET i == idx[Caller]
            n == Len(vec[Caller])
            e == hist'[Caller][Len(hist'[Caller])]
        IN  /\ Len(hist'[Caller]) = Len(hist[Caller]) + 1
            /\ e.op = "swap" /\ e.i = i
            /\ \E value \in ShuffleDraws :
                  LastDraw(U64(0), U64(i), value) = Ok(U64(e.j))
            /\ vec'[Caller] = Swap(vec[Caller], i, e.j)
            /\ idx'[Caller] = i - 1
            /\ \A p \in i + 1 .. n - 1 : vec'[Caller][p + 1] = vec[Caller][p + 1]

\* C28: shuffle on a slice of length n >= 2 makes exactly n - 1 passes, for
\* i = n - 1 down to 1 in this order; each pass is one random_in_range(0, i)
\* call followed by one swap of the positions i and j; once the pass for i
\* has run, the element at every position >= i is never moved again; and
\* the call comes to its end with the n - 1 passes made.
C28_PassesInOrder ==
    /\ []PassesInOrder
    /\ [][PassIsCallThenSwap]_vars
    /\ (hist[Caller] # << >>) ~>
          (/\ hist[Caller] # << >>
           /\ idx[Caller] = 0
           /\ Len(hist[Caller]) = HistoryWhenDone(Len(Input)))

\* 1, 2, 3, 4 shuffled in three passes, i = 3, 2, 1, into 4, 1, 3, 2
C28_Witness ==
    /\ hist[Caller] # << >>
    /\ Input = << 1, 2, 3, 4 >>
    /\ idx[Caller] = 0
    /\ hist[Caller] = << [op |-> "shuffle", input |-> << 1, 2, 3, 4 >>],
                         [op |-> "swap", i |-> 3, j |-> 1],
                         [op |-> "swap", i |-> 2, j |-> 2],
                         [op |-> "swap", i |-> 1, j |-> 0] >>
    /\ vec[Caller] = << 4, 1, 3, 2 >>

\* C29: the state is zero after generate() exactly when it was zero before;
\* from the zero state generate() returns 0 and leaves the state zero; from
\* a non-zero state no number of calls reaches the zero state; and a
\* generator seeded through get_seed starts from a non-zero state, so it
\* never reaches the zero state and never stays where it was.
C29_ZeroAbsorbing ==
    frame.pc = "generate" =>
        LET zero == WordZero(U64Bits)
        IN  /\ frame.calls >= 1 =>
                  /\ (frame.state = zero) <=> (frame.prev = zero)
                  /\ frame.prev = zero =>
                        /\ frame.value = zero
                        /\ frame.state = zero
            /\ frame.start # zero => frame.state # zero
            /\ frame.start = zero => frame.state = zero
            /\ frame.seeded =>
                  /\ frame.start # zero
                  /\ frame.state # zero
                  /\ frame.calls >= 1 => frame.state # frame.prev

\* the generator seeded from the clock reading 0, after GenCalls calls
C29_Witness ==
    /\ frame.pc = "generate"
    /\ frame.seeded
    /\ frame.start = WordOne(U64Bits)
    /\ frame.calls = GenCalls
    /\ frame.state # WordZero(U64Bits)
    /\ frame.value # WordZero(U64Bits)

====
